---- MODULE Spec2Model ----
(***************************************************************************)
(* placer: pack envelope (placer-pack/src/pack.rs), keyrings, and the      *)
(* coordinator's placement pipeline (src/main.rs, src/target_file.rs,      *)
(* src/hook.rs).                                                           *)
(*                                                                         *)
(* Cryptography is modelled symbolically: SHA-256 is collision free, an    *)
(* AES-256-SIV ciphertext opens only under the key and associated data it  *)
(* was sealed with, an Ed25519 signature verifies only for the message and *)
(* key pair it was made with, and any changed byte makes either fail.      *)
(***************************************************************************)
EXTENDS Integers, Sequences, FiniteSets, TLC

----------------------------------------------------------------------------
(* Program constants *)

MAX_PACK_TIMESTAMP_SKEW == 86400
SIGNATURE_SIZE == 64
PUBLIC_KEY_SIZE == 32
ENCRYPTION_KEY_SIZE == 32
SIGNING_KEY_SIZE == 32
PACK_V0_MAGIC_STRING == "placer-pack:v0.1"
DEFAULT_CONTENT_TYPE == "application/octet-stream"
DEFAULT_KEY_LABEL == "default"
ENCRYPTION_KEY_PREFIX == "secret.key:aes256siv+hks256"
SIGNING_KEY_PREFIX == "secret.key:ed25519"
VERIFY_KEY_PREFIX == "public.key:ed25519"
FINGERPRINT_PREFIX == "public.fingerprint:sha-256"

(* Clock resolution of the model: ticks per second (chrono counts          *)
(* nanoseconds; one tick is a millisecond here).                           *)
TicksPerSecond == 1000

(* Length of a TAI64N label in bytes *)
TAI64N_SIZE == 12

----------------------------------------------------------------------------
(* Bounds of the model *)

MaxFiles == 2

----------------------------------------------------------------------------
(* Results *)

Ok(v) == [ok |-> TRUE, val |-> v]

Err(e) == [ok |-> FALSE, err |-> e]

Range(s) == {s[i] : i \in DOMAIN s}

----------------------------------------------------------------------------
(* KeyURIs and fingerprints (placer-pack/src/keyuri.rs).  A KeyURI is kept *)
(* as its decoded parts: the prefix, the key material and its length, and   *)
(* whether bech32k decodes its text at all.                                *)

KeyUri(prefix, key) == [prefix |-> prefix, key |-> key, len |-> 32, decodes |-> TRUE]

\* keyuri::fingerprint: SHA-256 over the whole KeyURI text, prefix included
fingerprint(keyuri) == [prefix |-> FINGERPRINT_PREFIX, digest |-> keyuri]

\* Signer::public_key: the Ed25519 public key of a seed
PublicOf(seed) == seed + 10

\* PublicKey::to_keyuri
to_keyuri(pk) == KeyUri(VERIFY_KEY_PREFIX, pk)

\* PublicKey::to_fingerprint
to_fingerprint(pk) == fingerprint(to_keyuri(pk))

\* PublicKey::from_keyuri
PublicKeyFromKeyuri(keyuri) ==
    IF keyuri.prefix # VERIFY_KEY_PREFIX THEN Err("InvalidKey")
    ELSE IF keyuri.len # PUBLIC_KEY_SIZE THEN Err("InvalidKey")
    ELSE Ok(keyuri.key)

----------------------------------------------------------------------------
(* Crypto primitives *)

\* Signer::sign
Sign(seed, msg) == [seed |-> seed, msg |-> msg, len |-> SIGNATURE_SIZE, flip |-> 0]

PublicKeyVerifyNoCheck(pk, msg, sig) == Ok(TRUE)

\* PublicKey::verify: the size check, then the Ed25519 verification
PublicKeyVerify(pk, msg, sig) ==
    IF sig.len # SIGNATURE_SIZE THEN Err("Crypto")
    ELSE IF sig.flip = 0 /\ PublicOf(sig.seed) = pk /\ sig.msg = msg THEN Ok(TRUE)
    ELSE Err("Crypto")

EncryptorFromKeyuriNoSalt(secret_keyuri, salt) ==
    IF ~secret_keyuri.decodes THEN Err("InvalidKey")
    ELSE IF secret_keyuri.prefix # ENCRYPTION_KEY_PREFIX THEN Err("InvalidKey")
    ELSE IF secret_keyuri.len # ENCRYPTION_KEY_SIZE THEN Err("InvalidKey")
    ELSE Ok([algorithm |-> [ikm |-> secret_keyuri.key, salt |-> 0],
             fingerprint |-> fingerprint(secret_keyuri)])

\* Encryptor::from_keyuri: bech32k::decode(secret_keyuri)?, the prefix, the
\* length; HKDF-SHA-256(salt, key) keys AES-256-SIV
EncryptorFromKeyuri(secret_keyuri, salt) ==
    IF ~secret_keyuri.decodes THEN Err("InvalidKey")
    ELSE IF secret_keyuri.prefix # ENCRYPTION_KEY_PREFIX THEN Err("InvalidKey")
    ELSE IF secret_keyuri.len # ENCRYPTION_KEY_SIZE THEN Err("InvalidKey")
    ELSE Ok([algorithm |-> [ikm |-> secret_keyuri.key, salt |-> salt],
             fingerprint |-> fingerprint(secret_keyuri)])

\* Encryptor::seal
Seal(encryptor, associated_data, plaintext) ==
    [key |-> encryptor.algorithm, ad |-> associated_data, pt |-> plaintext, flip |-> 0]

\* Encryptor::open
Open(encryptor, associated_data, ciphertext) ==
    IF /\ ciphertext.flip = 0
       /\ ciphertext.key = encryptor.algorithm
       /\ ciphertext.ad = associated_data
    THEN Ok(ciphertext.pt)
    ELSE Err("Crypto")

----------------------------------------------------------------------------
(* Timestamps *)

\* Tai64n::from(DateTime<Utc>): seconds label and sub-second part
Tai64nFrom(date) ==
    [secs |-> date \div TicksPerSecond, frac |-> date % TicksPerSecond,
     len |-> TAI64N_SIZE]

\* Tai64n::to_datetime_utc
to_datetime_utc(value) ==
    IF value.len # TAI64N_SIZE THEN Err("Parse")
    ELSE Ok(value.secs * TicksPerSecond + value.frac)

\* chrono::Duration::num_seconds: whole seconds, truncated toward zero
num_seconds(d) ==
    IF d >= 0 THEN d \div TicksPerSecond ELSE 0 - ((0 - d) \div TicksPerSecond)

BogusFutureStrict(date, clock) == date - clock > MAX_PACK_TIMESTAMP_SKEW * TicksPerSecond

BogusEitherWay(date, clock) ==
    \/ num_seconds(date - clock) > MAX_PACK_TIMESTAMP_SKEW
    \/ num_seconds(clock - date) > MAX_PACK_TIMESTAMP_SKEW

\* the skew test of verify_and_decrypt
BogusFuture(date, clock) == num_seconds(date - clock) > MAX_PACK_TIMESTAMP_SKEW

----------------------------------------------------------------------------
(* UUID text *)

UuidForms == {"hyphenated", "upper", "simple", "invalid"}

\* Uuid::to_string: lower-case hyphenated
UuidToString(u) == [val |-> u, form |-> "hyphenated"]

\* Uuid::parse_str: hyphenated or simple, either letter case
UuidParseStr(s) == IF s.form = "invalid" THEN Err("Parse") ELSE Ok(s.val)

----------------------------------------------------------------------------
(* Payload encoding (protobuf: a field is written unless it has its        *)
(* default value, and a missing field decodes to the default)              *)

EncodeFile(f) ==
    [x \in {"modified_at"}
           \cup (IF f.filename # "" THEN {"filename"} ELSE {})
           \cup (IF f.content_type # "" THEN {"content_type"} ELSE {})
           \cup (IF f.body # <<>> THEN {"body"} ELSE {}) |-> f[x]]

DecodeFile(e) ==
    [filename |-> IF "filename" \in DOMAIN e THEN e.filename ELSE "",
     content_type |-> IF "content_type" \in DOMAIN e THEN e.content_type ELSE "",
     modified_at |-> e.modified_at,
     body |-> IF "body" \in DOMAIN e THEN e.body ELSE <<>>]

\* Pack::serialize
Serialize(files) == [i \in 1..Len(files) |-> EncodeFile(files[i])]

\* Payload::decode
PayloadDecode(plaintext) == [i \in 1..Len(plaintext) |-> DecodeFile(plaintext[i])]

----------------------------------------------------------------------------
(* Keyrings *)

Labels == {"default", "alt"}

\* placer-pack SigningKeyring::new (producer): label -> signing seed; the
\* insert is by label, and the labels of the table differ, so it never finds
\* an entry
ProducerSigningNew(keys) ==
    IF \E l \in DOMAIN keys : keys[l].prefix # SIGNING_KEY_PREFIX THEN Err("InvalidKey")
    ELSE IF \E l \in DOMAIN keys : keys[l].len # SIGNING_KEY_SIZE THEN Err("InvalidKey")
    ELSE Ok([l \in DOMAIN keys |-> keys[l].key])

\* placer-pack EncryptionKeyring::new (producer): the table as configured
ProducerEncryptionNew(keys) == Ok(keys)

\* placer-pack Keyrings::load
ProducerLoad(config) ==
    LET e == ProducerEncryptionNew(config.encryption)
        s == ProducerSigningNew(config.signing)
    IN  IF ~e.ok THEN e ELSE IF ~s.ok THEN s
        ELSE Ok([encryption |-> e.val, signing |-> s.val])

\* placer-pack EncryptionKeyring::get: by label, derived with the salt
ProducerEncryptionGet(keyring, label, salt) ==
    IF label \in DOMAIN keyring.encryption
    THEN EncryptorFromKeyuri(keyring.encryption[label], salt)
    ELSE Err("InvalidKey")

\* Keyrings::export_verify_keys: public keys for the signing seeds, the
\* encryption secrets as they are
ExportVerifyKeys(keyring) ==
    [signing |-> [l \in DOMAIN keyring.signing |-> to_keyuri(PublicOf(keyring.signing[l]))],
     encryption |-> keyring.encryption]

\* placer SigningKeyring::new (consumer): fingerprint -> public key
ConsumerSigningNew(keys) ==
    IF \E l \in DOMAIN keys : ~PublicKeyFromKeyuri(keys[l]).ok THEN Err("InvalidKey")
    ELSE IF \E l, m \in DOMAIN keys :
               l # m /\ to_fingerprint(keys[l].key) = to_fingerprint(keys[m].key)
         THEN Err("InvalidKey")
    ELSE Ok([f \in {to_fingerprint(keys[l].key) : l \in DOMAIN keys} |-> f.digest.key])

\* placer EncryptionKeyring::new (consumer): fingerprint -> secret KeyURI
ConsumerEncryptionNew(keys) ==
    IF \E l \in DOMAIN keys : keys[l].prefix # ENCRYPTION_KEY_PREFIX THEN Err("InvalidKey")
    ELSE IF \E l, m \in DOMAIN keys : l # m /\ fingerprint(keys[l]) = fingerprint(keys[m])
         THEN Err("InvalidKey")
    ELSE Ok([f \in {fingerprint(keys[l]) : l \in DOMAIN keys} |-> f.digest])

\* placer Keyrings::load (consumer)
ConsumerLoad(config) ==
    LET e == ConsumerEncryptionNew(config.encryption)
        s == ConsumerSigningNew(config.signing)
    IN  IF ~e.ok THEN e ELSE IF ~s.ok THEN s
        ELSE Ok([encryption |-> e.val, signing |-> s.val])

\* placer SigningKeyring::get
SigningKeyringGet(keyring, key) ==
    IF key \in DOMAIN keyring.signing THEN Ok(keyring.signing[key]) ELSE Err("InvalidKey")

\* placer EncryptionKeyring::get
EncryptionKeyringGet(keyring, key, salt) ==
    IF key \in DOMAIN keyring.encryption
    THEN LET e == EncryptorFromKeyuri(keyring.encryption[key], salt)
         IN  IF e.ok THEN e ELSE Err("InvalidKey")
    ELSE Err("InvalidKey")

get_for_fingerprints_any(keyring, fingerprints, uuid) ==
    LET sk == IF fingerprints.signing_key \in DOMAIN keyring.signing
              THEN fingerprints.signing_key
              ELSE CHOOSE f \in DOMAIN keyring.signing : TRUE
        ek == IF fingerprints.encryption_key \in DOMAIN keyring.encryption
              THEN fingerprints.encryption_key
              ELSE CHOOSE f \in DOMAIN keyring.encryption : TRUE
    IN  Ok([public_key |-> keyring.signing[sk],
            encryptor |-> EncryptorFromKeyuri(keyring.encryption[ek], uuid).val])

\* Keyrings::get_for_fingerprints: the verify key, then the encryptor
get_for_fingerprints(keyring, fingerprints, uuid) ==
    LET verify_key == SigningKeyringGet(keyring, fingerprints.signing_key)
        encryption_key == EncryptionKeyringGet(keyring, fingerprints.encryption_key, uuid)
    IN  IF ~verify_key.ok THEN Err("InvalidKey")
        ELSE IF ~encryption_key.ok THEN Err("InvalidKey")
        ELSE Ok([public_key |-> verify_key.val, encryptor |-> encryption_key.val])

\* the key_lookup closure the coordinator hands to verify_and_decrypt
key_lookup(keyring, fingerprints, uuid) == get_for_fingerprints(keyring, fingerprints, uuid)

----------------------------------------------------------------------------
(* State *)

VARIABLES
    stage,      \* position of the pack scenario
    producer,   \* the producer's keyring configuration
    consumer,   \* result of loading the exported keyring at the coordinator
    pack,       \* the Pack built by Pack::create
    sealed,     \* the envelope as encrypt_and_sign wrote it
    wire,       \* the pack bytes as they reach verify_and_decrypt
    tampered,   \* the field changed in transit, or "none"
    now,        \* the coordinator's clock
    vd,         \* frame of verify_and_decrypt
    ops,        \* signature verifications and AEAD opens, in order
    result,     \* what verify_and_decrypt returned
    targets,    \* the coordinator's target table (path -> TargetFile)
    fs,         \* the filesystem: path -> file
    co,         \* position of the coordinator's loop
    packName,   \* label of the pack being routed
    cur,        \* the current (or latest) place_file_if_updated call
    routed,     \* the file of the pack in hand routed last and what process_pack
                \* did with it, or the delivery discarded last
    boot,       \* frame of main: startup position, exit code, packs handed on
    source,     \* the Source and the pipes of its fetcher child
    loop,       \* main's loop over deliveries and process_pack's over files
    sizes,      \* byte lengths along encrypt_and_sign and the size checks
    codec,      \* a bech32k string, how it was made and what decode returns
    keyfile,    \* a keyring file, its permissions and what loading it returns
    ring,       \* an encryption keyring: its table, its construction, a lookup
    http,       \* the HTTP fetcher: its resources and what it has polled
    relay       \* deliveries of published packs and the targets they reach

packVars == <<stage, producer, consumer, pack, sealed, wire, tampered, now, vd, ops, result>>

placeVars == <<targets, fs, co, packName, cur, routed>>

sourceVars == <<boot, source>>

unitVars == <<loop, sizes, codec, keyfile, ring, http, relay>>

vars == <<packVars, placeVars, sourceVars, unitVars>>

----------------------------------------------------------------------------
(* Inputs of the pack scenario *)

KeyIds == {1, 2}

UnknownKeyId == Cardinality(KeyIds) + 1

Uuids == {1, 2}

\* producer keyring files: one key each, two keys each, and tables in which
\* two labels carry the same key
ProducerConfigs ==
    LET sk(i) == KeyUri(SIGNING_KEY_PREFIX, i)
        ek(i) == KeyUri(ENCRYPTION_KEY_PREFIX, i)
        one(k) == [l \in {DEFAULT_KEY_LABEL} |-> k]
        two(k, m) == [l \in Labels |-> IF l = DEFAULT_KEY_LABEL THEN k ELSE m]
    IN  { [signing |-> one(sk(1)), encryption |-> one(ek(1))],
          [signing |-> two(sk(1), sk(2)), encryption |-> two(ek(1), ek(2))],
          [signing |-> two(sk(1), sk(1)), encryption |-> two(ek(1), ek(2))],
          [signing |-> two(sk(1), sk(2)), encryption |-> two(ek(2), ek(2))] }

Filenames == {"/etc/hello", "/etc/motd"}

Bodies == {<<>>, <<1, 2>>}

PackFiles ==
    [filename : Filenames, content_type : {DEFAULT_CONTENT_TYPE},
     modified_at : {7}, body : Bodies]

SeqsUpTo(S, n) == UNION {[1..k -> S] : k \in 0..n}

Now0 == 5 * TicksPerSecond

\* date - now of the packs tried: past, present, at the limit, within the
\* same second as the limit, one second and one day beyond it
Deltas ==
    LET limit == MAX_PACK_TIMESTAMP_SKEW * TicksPerSecond
    IN  {0 - TicksPerSecond, 0, limit, limit + (TicksPerSecond \div 2),
         limit + TicksPerSecond, 2 * limit}

\* every fingerprint string an envelope may carry
FingerprintStrings ==
    {to_fingerprint(PublicOf(i)) : i \in KeyIds \cup {UnknownKeyId}}
      \cup {fingerprint(KeyUri(ENCRYPTION_KEY_PREFIX, i)) : i \in KeyIds \cup {UnknownKeyId}}

NoResult == [status |-> "none"]

VdIdle ==
    [pc |-> "idle", uuid |-> 0, public_key |-> 0,
     encryptor |-> [algorithm |-> [ikm |-> 0, salt |-> 0],
                    fingerprint |-> fingerprint(KeyUri(ENCRYPTION_KEY_PREFIX, 0))],
     date |-> 0, plaintext |-> <<>>]

\* no call of place_file_if_updated yet
NoCall ==
    [target |-> <<>>, body |-> <<>>, pc |-> "returned", i |-> 0, ret |-> "none",
     creates |-> 0, renames |-> 0, hooks |-> <<>>, child |-> 0, read |-> "none",
     before |-> [exists |-> FALSE, data |-> <<>>],
     prior |-> [same |-> FALSE, creates |-> 0, renames |-> 0, hooks |-> 0]]

NothingRouted == [filename |-> "", pack |-> "", outcome |-> "none"]

\* the placement pipeline is not part of the pack scenario
PlaceOff ==
    /\ targets = <<>>
    /\ fs = <<>>
    /\ co = "off"
    /\ packName = ""
    /\ cur = NoCall
    /\ routed = NothingRouted

\* the coordinator's startup and its source are not part of the scenario
SourceOff ==
    /\ boot = [pc |-> "off"]
    /\ source = [pc |-> "off"]

LoopOff == loop = [pc |-> "off"]

SizesOff == sizes = [pc |-> "off"]

CodecOff == codec = [pc |-> "off"]

KeyfileOff == keyfile = [pc |-> "off"]

RingOff == ring = [pc |-> "off"]

HttpOff == http = [pc |-> "off"]

RelayOff == relay = [pc |-> "off"]

MoreOff == RingOff /\ HttpOff /\ RelayOff

\* the scenarios of single functions are not part of the scenario
UnitsOff == LoopOff /\ SizesOff /\ CodecOff /\ KeyfileOff /\ MoreOff

InitPack ==
    /\ PlaceOff
    /\ SourceOff
    /\ UnitsOff
    /\ stage = "create"
    /\ producer \in ProducerConfigs
    /\ consumer = Err("none")
    /\ pack = [uuid |-> 0, date |-> 0, files |-> <<>>]
    /\ sealed = [uuid |-> 0]
    /\ wire = [short |-> TRUE]
    /\ tampered = "none"
    /\ now = Now0
    /\ vd = VdIdle
    /\ ops = <<>>
    /\ result = NoResult

----------------------------------------------------------------------------
(* Producer *)

\* Pack::create: the files in input order, the UUID given, the date read
\* from the producer's clock
Create ==
    /\ stage = "create"
    /\ \E uuid \in Uuids, files \in SeqsUpTo(PackFiles, MaxFiles), d \in Deltas :
          pack' = [uuid |-> uuid, date |-> now + d, files |-> files]
    /\ stage' = "seal"
    /\ UNCHANGED <<producer, consumer, sealed, wire, tampered, now, vd, ops, result>>
    /\ UNCHANGED placeVars
    /\ UNCHANGED <<sourceVars, unitVars>>

\* the associated data encrypt_and_sign seals under
SealAD(date, encryption_key_fingerprint, signing_key_fingerprint) ==
    <<date, encryption_key_fingerprint, signing_key_fingerprint>>

\* Pack::encrypt_and_sign
encrypt_and_sign(p, encryptor, signer) ==
    LET date == Tai64nFrom(p.date)
        uuid == UuidToString(p.uuid)
        encryption_key_fingerprint == encryptor.fingerprint
        signing_key_fingerprint == to_fingerprint(PublicOf(signer))
        plaintext == Serialize(p.files)
        ciphertext == Seal(encryptor,
                           SealAD(date, encryption_key_fingerprint, signing_key_fingerprint),
                           plaintext)
        signature == Sign(signer, ciphertext)
    IN  [short |-> FALSE, magic |-> PACK_V0_MAGIC_STRING, malformed |-> FALSE,
         proto |-> [uuid |-> uuid,
                    date |-> [present |-> TRUE, value |-> date],
                    signing_key_fingerprint |-> signing_key_fingerprint,
                    encryption_key_fingerprint |-> encryption_key_fingerprint,
                    signature |-> signature,
                    ciphertext |-> ciphertext]]

\* the producer seals the pack with a signing key and an encryption key of
\* its keyring, the encryptor derived with the pack's UUID as salt
EncryptAndSign ==
    /\ stage = "seal"
    /\ LET keyring == ProducerLoad(producer).val
       IN  \E sl \in DOMAIN keyring.signing, el \in DOMAIN keyring.encryption :
              LET out == encrypt_and_sign(pack,
                             ProducerEncryptionGet(keyring, el, pack.uuid).val,
                             keyring.signing[sl])
              IN  /\ sealed' = out.proto
                  /\ wire' = out
    /\ stage' = "export"
    /\ UNCHANGED <<producer, consumer, pack, tampered, now, vd, ops, result>>
    /\ UNCHANGED placeVars
    /\ UNCHANGED <<sourceVars, unitVars>>

\* placer-pack export, then the coordinator loads the exported keyring
ExportAndLoad ==
    /\ stage = "export"
    /\ consumer' = ConsumerLoad(ExportVerifyKeys(ProducerLoad(producer).val))
    /\ stage' = IF consumer'.ok THEN "wire" ELSE "nokeyring"
    /\ UNCHANGED <<producer, pack, sealed, wire, tampered, now, vd, ops, result>>
    /\ UNCHANGED placeVars
    /\ UNCHANGED <<sourceVars, unitVars>>

----------------------------------------------------------------------------
(* The untrusted transport: one field of the envelope is changed, every    *)
(* other field left as it was                                              *)

FlipPositions == {1, 2}

Tamper(field, proto) ==
    /\ stage = "wire"
    /\ tampered = "none"
    /\ proto # wire.proto
    /\ wire' = [wire EXCEPT !.proto = proto]
    /\ tampered' = field
    /\ UNCHANGED <<stage, producer, consumer, pack, sealed, now, vd, ops, result>>
    /\ UNCHANGED placeVars
    /\ UNCHANGED <<sourceVars, unitVars>>

TamperCiphertext ==
    \E i \in FlipPositions :
        Tamper("ciphertext", [wire.proto EXCEPT !.ciphertext.flip = i])

TamperSignature ==
    \/ \E i \in FlipPositions :
          Tamper("signature", [wire.proto EXCEPT !.signature.flip = i])
    \/ \E n \in {0, SIGNATURE_SIZE - 1, SIGNATURE_SIZE + 1} :
          Tamper("signature", [wire.proto EXCEPT !.signature.len = n])

TamperSigningFingerprint ==
    \E f \in FingerprintStrings :
        Tamper("signing_key_fingerprint", [wire.proto EXCEPT !.signing_key_fingerprint = f])

TamperEncryptionFingerprint ==
    \E f \in FingerprintStrings :
        Tamper("encryption_key_fingerprint",
               [wire.proto EXCEPT !.encryption_key_fingerprint = f])

TamperUuid ==
    \E u \in [val : Uuids, form : UuidForms] :
        Tamper("uuid", [wire.proto EXCEPT !.uuid = u])

TamperDate ==
    \/ Tamper("date", [wire.proto EXCEPT !.date.present = FALSE])
    \/ Tamper("date", [wire.proto EXCEPT !.date.value.len = TAI64N_SIZE - 1])
    \/ Tamper("date", [wire.proto EXCEPT !.date.value.secs = @ + 1])
    \/ Tamper("date", [wire.proto EXCEPT !.date.value.secs = @ - 1])

TamperFraming ==
    /\ stage = "wire"
    /\ tampered = "none"
    /\ \/ wire' = [wire EXCEPT !.short = TRUE]
       \/ wire' = [wire EXCEPT !.magic = "placer-pack:v9.9"]
       \/ wire' = [wire EXCEPT !.malformed = TRUE]
    /\ tampered' = "framing"
    /\ UNCHANGED <<stage, producer, consumer, pack, sealed, now, vd, ops, result>>
    /\ UNCHANGED placeVars
    /\ UNCHANGED <<sourceVars, unitVars>>

----------------------------------------------------------------------------
(* Pack::verify_and_decrypt, one action per fallible step                  *)

\* the length and magic checks and the envelope decoding
VD_Decode ==
    /\ stage = "wire"
    /\ stage' = "vd"
    /\ IF wire.short \/ wire.magic # PACK_V0_MAGIC_STRING \/ wire.malformed
       THEN /\ result' = [status |-> "Parse"]
            /\ vd' = [vd EXCEPT !.pc = "done"]
       ELSE LET uuid == UuidParseStr(wire.proto.uuid)
            IN  IF ~uuid.ok
                THEN /\ result' = [status |-> "Parse"]
                     /\ vd' = [vd EXCEPT !.pc = "done"]
                ELSE /\ vd' = [vd EXCEPT !.pc = "lookup", !.uuid = uuid.val]
                     /\ UNCHANGED result
    /\ UNCHANGED <<producer, consumer, pack, sealed, wire, tampered, now, ops>>
    /\ UNCHANGED placeVars
    /\ UNCHANGED <<sourceVars, unitVars>>

Fingerprints(proto) ==
    [signing_key |-> proto.signing_key_fingerprint,
     encryption_key |-> proto.encryption_key_fingerprint]

\* key_lookup(&fingerprints, &uuid), a miss is an InvalidKey error
VD_KeyLookup ==
    /\ stage = "vd" /\ vd.pc = "lookup"
    /\ LET keys == key_lookup(consumer.val, Fingerprints(wire.proto), vd.uuid)
       IN  IF ~keys.ok
           THEN /\ result' = [status |-> "InvalidKey"]
                /\ vd' = [vd EXCEPT !.pc = "done"]
           ELSE /\ vd' = [vd EXCEPT !.pc = "date",
                                    !.public_key = keys.val.public_key,
                                    !.encryptor = keys.val.encryptor]
                /\ UNCHANGED result
    /\ UNCHANGED <<stage, producer, consumer, pack, sealed, wire, tampered, now, ops>>
    /\ UNCHANGED placeVars
    /\ UNCHANGED <<sourceVars, unitVars>>

\* the date must be present and parse
VD_ParseDate ==
    /\ stage = "vd" /\ vd.pc = "date"
    /\ IF ~wire.proto.date.present \/ ~to_datetime_utc(wire.proto.date.value).ok
       THEN /\ result' = [status |-> "Parse"]
            /\ vd' = [vd EXCEPT !.pc = "done"]
       ELSE /\ vd' = [vd EXCEPT !.pc = "verify",
                                !.date = to_datetime_utc(wire.proto.date.value).val]
            /\ UNCHANGED result
    /\ UNCHANGED <<stage, producer, consumer, pack, sealed, wire, tampered, now, ops>>
    /\ UNCHANGED placeVars
    /\ UNCHANGED <<sourceVars, unitVars>>

VD_VerifyThenOpenAnyway ==
    /\ stage = "vd" /\ vd.pc = "verify"
    /\ LET v == PublicKeyVerify(vd.public_key, wire.proto.ciphertext, wire.proto.signature)
       IN  /\ ops' = Append(ops, [op |-> "verify", ok |-> v.ok, msg |-> wire.proto.ciphertext])
           /\ vd' = [vd EXCEPT !.pc = "open"]
           /\ UNCHANGED result
    /\ UNCHANGED <<stage, producer, consumer, pack, sealed, wire, tampered, now>>
    /\ UNCHANGED placeVars
    /\ UNCHANGED <<sourceVars, unitVars>>

\* public_key.verify(&proto.ciphertext, &proto.signature)?
VD_Verify ==
    /\ stage = "vd" /\ vd.pc = "verify"
    /\ LET v == PublicKeyVerify(vd.public_key, wire.proto.ciphertext, wire.proto.signature)
       IN  /\ ops' = Append(ops, [op |-> "verify", ok |-> v.ok, msg |-> wire.proto.ciphertext])
           /\ IF ~v.ok
              THEN /\ result' = [status |-> "Crypto"]
                   /\ vd' = [vd EXCEPT !.pc = "done"]
              ELSE /\ vd' = [vd EXCEPT !.pc = "open"]
                   /\ UNCHANGED result
    /\ UNCHANGED <<stage, producer, consumer, pack, sealed, wire, tampered, now>>
    /\ UNCHANGED placeVars
    /\ UNCHANGED <<sourceVars, unitVars>>

OpenADSwapped(proto) ==
    <<proto.date.value, proto.signing_key_fingerprint, proto.encryption_key_fingerprint>>

\* the associated data verify_and_decrypt opens under, rebuilt from the
\* envelope's own fields
OpenAD(proto) ==
    <<proto.date.value, proto.encryption_key_fingerprint, proto.signing_key_fingerprint>>

\* encryptor.open(ad, &proto.ciphertext)
VD_Open ==
    /\ stage = "vd" /\ vd.pc = "open"
    /\ LET o == Open(vd.encryptor, OpenAD(wire.proto), wire.proto.ciphertext)
       IN  /\ ops' = Append(ops, [op |-> "open", ok |-> o.ok, msg |-> wire.proto.ciphertext])
           /\ IF ~o.ok
              THEN /\ result' = [status |-> "Crypto"]
                   /\ vd' = [vd EXCEPT !.pc = "done"]
              ELSE /\ vd' = [vd EXCEPT !.pc = "skew", !.plaintext = o.val]
                   /\ UNCHANGED result
    /\ UNCHANGED <<stage, producer, consumer, pack, sealed, wire, tampered, now>>
    /\ UNCHANGED placeVars
    /\ UNCHANGED <<sourceVars, unitVars>>

\* the future-timestamp check, then the payload, then Ok(Pack)
VD_CheckSkew ==
    /\ stage = "vd" /\ vd.pc = "skew"
    /\ IF BogusFuture(vd.date, now)
       THEN result' = [status |-> "Parse"]
       ELSE result' = [status |-> "Ok",
                       uuid |-> vd.uuid,
                       date |-> vd.date,
                       fingerprints |-> Fingerprints(wire.proto),
                       files |-> PayloadDecode(vd.plaintext)]
    /\ vd' = [vd EXCEPT !.pc = "done"]
    /\ UNCHANGED <<stage, producer, consumer, pack, sealed, wire, tampered, now, ops>>
    /\ UNCHANGED placeVars
    /\ UNCHANGED <<sourceVars, unitVars>>

NextPack ==
    \/ Create
    \/ EncryptAndSign
    \/ ExportAndLoad
    \/ TamperCiphertext
    \/ TamperSignature
    \/ TamperSigningFingerprint
    \/ TamperEncryptionFingerprint
    \/ TamperUuid
    \/ TamperDate
    \/ TamperFraming
    \/ VD_Decode
    \/ VD_KeyLookup
    \/ VD_ParseDate
    \/ VD_Verify
    \/ VD_Open
    \/ VD_CheckSkew

SpecPack == InitPack /\ [][NextPack]_vars

Done == vd.pc = "done"

----------------------------------------------------------------------------
(* Claims about the pack envelope, checked under SpecPack *)

Untouched == Done /\ tampered = "none"

\* C1: a pack built from files F1..Fn, sealed with a signing key and an
\* encryption key of the producer keyring and opened with the consumer keyring
\* exported from it, the clock within the allowed skew, is accepted; the
\* files come back in order with the same names and bodies, and the
\* fingerprints returned are the ones the producer wrote into the envelope.
C1_RoundTrip ==
    (Untouched /\ ~BogusFutureStrict(pack.date, now)) =>
        /\ result.status = "Ok"
        /\ result.files = pack.files
        /\ result.uuid = pack.uuid
        /\ result.fingerprints.signing_key = sealed.signing_key_fingerprint
        /\ result.fingerprints.encryption_key = sealed.encryption_key_fingerprint

C1_Witness ==
    /\ Untouched /\ result.status = "Ok"
    /\ Len(pack.files) = 2 /\ pack.files[1] # pack.files[2]
    /\ result.files = pack.files
    /\ Cardinality(DOMAIN consumer.val.signing) = 2
    /\ sealed.signing_key_fingerprint = to_fingerprint(PublicOf(2))

\* C2: the AEAD open of a ciphertext is attempted only after the signature
\* over that same ciphertext has verified; when the verification fails the
\* function returns a Crypto error and no open is attempted.
C2_VerifyBeforeOpen ==
    /\ \A i \in DOMAIN ops :
          ops[i].op = "open" =>
              \E j \in 1..(i - 1) :
                  ops[j].op = "verify" /\ ops[j].ok /\ ops[j].msg = ops[i].msg
    /\ (\E j \in DOMAIN ops : ops[j].op = "verify" /\ ~ops[j].ok) =>
          /\ \A i \in DOMAIN ops : ops[i].op # "open"
          /\ Done
          /\ result.status = "Crypto"

C2_Witness ==
    /\ Done /\ Len(ops) = 2
    /\ ops[1].op = "verify" /\ ops[1].ok
    /\ ops[2].op = "open" /\ ~ops[2].ok

\* C3: a changed ciphertext byte, or a changed signature (a signature of a
\* length other than 64 included), makes verify_and_decrypt with the matching
\* keyring return a Crypto error and no Pack.
C3_TamperIsCryptoError ==
    (Done /\ tampered \in {"ciphertext", "signature"}) => result = [status |-> "Crypto"]

C3_Witness ==
    /\ Done /\ tampered = "signature"
    /\ wire.proto.signature.len = SIGNATURE_SIZE + 1
    /\ result.status = "Crypto"

FingerprintTampered ==
    Done /\ tampered \in {"signing_key_fingerprint", "encryption_key_fingerprint"}

\* C4 as claimed: a changed signing-key or encryption-key fingerprint makes
\* the coordinator's verify-and-decrypt fail with a Crypto error.
C4_FingerprintTamperIsCrypto ==
    FingerprintTampered => result.status = "Crypto"

\* C4 as amended: a changed fingerprint makes verify-and-decrypt fail: with an
\* InvalidKey error (key lookup failed) when the changed fingerprint is not in
\* the consumer keyring, and with a Crypto error when it names another key of
\* the keyring.
C4_FingerprintTamperFails ==
    FingerprintTampered =>
        result = [status |->
                    IF /\ wire.proto.signing_key_fingerprint \in DOMAIN consumer.val.signing
                       /\ wire.proto.encryption_key_fingerprint
                              \in DOMAIN consumer.val.encryption
                    THEN "Crypto" ELSE "InvalidKey"]

C4_Witness ==
    /\ Done /\ tampered = "encryption_key_fingerprint"
    /\ wire.proto.encryption_key_fingerprint \in DOMAIN consumer.val.encryption
    /\ Len(ops) = 2 /\ ops[1].ok /\ ~ops[2].ok
    /\ result.status = "Crypto"

\* C5 as claimed: a changed UUID field makes verify_and_decrypt fail with a
\* Crypto error.
C5_UuidTamperIsCrypto ==
    (Done /\ tampered = "uuid") => result.status = "Crypto"

\* C5 as amended: a UUID field changed to a string that parses as another UUID
\* gives a Crypto error (the encryptor is derived with the wrong salt); changed
\* to a string that does not parse it gives a Parse error; changed to another
\* spelling of the same UUID it changes nothing: the pack is treated as the
\* unmodified pack is.
C5_UuidTamper ==
    (Done /\ tampered = "uuid") =>
        LET u == wire.proto.uuid
        IN  IF u.form = "invalid" THEN result = [status |-> "Parse"]
            ELSE IF u.val # pack.uuid THEN result = [status |-> "Crypto"]
            ELSE IF BogusFuture(pack.date, now) THEN result = [status |-> "Parse"]
            ELSE result.status = "Ok" /\ result.files = pack.files

C5_Witness ==
    /\ Done /\ tampered = "uuid"
    /\ wire.proto.uuid.form = "hyphenated" /\ wire.proto.uuid.val # pack.uuid
    /\ Len(ops) = 2 /\ ops[1].ok /\ ~ops[2].ok
    /\ result.status = "Crypto"

\* C6: a correctly signed and encrypted pack is rejected with a Parse error
\* exactly when its date minus the current time is greater than 86,400
\* seconds, fractions of a second included.
C6_SkewExact ==
    Untouched =>
        (result.status = "Parse"
            <=> pack.date - now > MAX_PACK_TIMESTAMP_SKEW * TicksPerSecond)

----------------------------------------------------------------------------
(* The placement pipeline: process_pack, place_file_if_updated (main.rs),  *)
(* TargetFile::place (target_file.rs), Hook::run (hook.rs).                *)
(* A path is the sequence of its components; a file is absent or holds a   *)
(* sequence of bytes.  Hooks are external programs: each run ends in one   *)
(* of the ways Hook::run tells apart, and hooks leave the files alone.     *)

PLACER_TEMPFILE_PREFIX == ".placer-tmp-"

FILENAME_PLACEHOLDER == "%f"

Absent == [exists |-> FALSE, data |-> <<>>]

File(data) == [exists |-> TRUE, data |-> data]

\* PathBuf::from(&file.filename): paths compare by components, so a repeated
\* separator makes no difference
PathBufFrom(filename) ==
    CASE filename = "/etc/hello"  -> <<"etc", "hello">>
      [] filename = "/etc//hello" -> <<"etc", "hello">>
      [] filename = "/etc/motd"   -> <<"etc", "motd">>
      [] filename = "/etc/.placer-tmp-hello" -> <<"etc", ".placer-tmp-hello">>
      [] OTHER                    -> <<"etc", "passwd">>

\* self.path.with_file_name(PLACER_TEMPFILE_PREFIX + file_name)
TempPath(path) == [path EXCEPT ![Len(path)] = PLACER_TEMPFILE_PREFIX \o @]

\* the `files` table as the configuration file declares it: the hooks of a
\* target in the order they are written, each under its path (here the rank
\* of the path in path order)
DeclaredFiles ==
    (<<"etc", "hello">> :>
        [pack |-> "A",
         before_hooks |-> <<[path |-> 2, args |-> <<FILENAME_PLACEHOLDER>>],
                            [path |-> 1, args |-> <<"-c", FILENAME_PLACEHOLDER>>]>>,
         after_hooks |-> <<[path |-> 3, args |-> <<FILENAME_PLACEHOLDER>>],
                           [path |-> 4, args |-> <<"reload">>]>>])
    @@
    (<<"etc", "motd">> :>
        [pack |-> "B",
         before_hooks |-> <<>>,
         after_hooks |-> <<[path |-> 3, args |-> <<FILENAME_PLACEHOLDER>>]>>])

\* FileConfig as deserialized: before_hooks and after_hooks are
\* BTreeMap<PathBuf, HookConfig>, which keeps the hooks by path and not the
\* order of the file
FileConfig(declared) ==
    [pack |-> declared.pack,
     before_hooks |-> Range(declared.before_hooks),
     after_hooks |-> Range(declared.after_hooks)]

\* the `files` table of the host configuration
HostFiles == [p \in DOMAIN DeclaredFiles |-> FileConfig(DeclaredFiles[p])]

RECURSIVE process_hook_configs(_)
\* process_hook_configs: the hooks of a BTreeMap, in the order of their paths
process_hook_configs(hooks) ==
    IF hooks = {} THEN <<>>
    ELSE LET first == CHOOSE h \in hooks : \A g \in hooks : h.path <= g.path
         IN  <<first>> \o process_hook_configs(hooks \ {first})

\* TargetFile::new
TargetFileNew(path, config) ==
    [path |-> path,
     pack |-> config.pack,
     before_hooks |-> process_hook_configs(config.before_hooks),
     after_hooks |-> process_hook_configs(config.after_hooks)]

\* process_file_config
process_file_config(files) == [p \in DOMAIN files |-> TargetFileNew(p, files[p])]

PackNames == {"A", "B"}

RoutedFilenames ==
    {"/etc/hello", "/etc//hello", "/etc/motd", "/etc/passwd", "/etc/.placer-tmp-hello"}

PlacedBodies == {<<1, 2>>, <<3>>}

\* how a hook run can end: exit status 0, another exit status, killed by a
\* signal, or the spawn itself fails
HookOutcomes == {"exit0", "exit1", "signal", "spawn_failed"}

AllPaths(files) == DOMAIN files \cup {TempPath(p) : p \in DOMAIN files}

PackOff ==
    /\ stage = "off"
    /\ producer = <<>>
    /\ consumer = Err("none")
    /\ pack = [uuid |-> 0, date |-> 0, files |-> <<>>]
    /\ sealed = [uuid |-> 0]
    /\ wire = [short |-> TRUE]
    /\ tampered = "none"
    /\ now = Now0
    /\ vd = VdIdle
    /\ ops = <<>>
    /\ result = NoResult

\* the coordinator has loaded its configuration; each target is missing or
\* holds an earlier body, no temp file is left over
InitPlace ==
    /\ PackOff
    /\ SourceOff
    /\ UnitsOff
    /\ targets = process_file_config(HostFiles)
    /\ \E content \in [DOMAIN HostFiles -> {Absent} \cup {File(b) : b \in PlacedBodies}] :
          fs = [p \in AllPaths(HostFiles) |->
                  IF p \in DOMAIN HostFiles THEN content[p] ELSE Absent]
    /\ co = "recv"
    /\ packName = ""
    /\ cur = NoCall
    /\ routed = NothingRouted

----------------------------------------------------------------------------
(* process_pack and place_file_if_updated *)

DigestOfNothing(input) == [sha256 |-> <<>>]

\* Digest::for_bytes
DigestForBytes(input) == [sha256 |-> input]

RouteAnyPack(table, name, filename) ==
    IF PathBufFrom(filename) \notin DOMAIN table THEN "no_config"
    ELSE "place"

\* process_pack, one file: no target, a target of another pack, or placement
Route(table, name, filename) ==
    IF PathBufFrom(filename) \notin DOMAIN table THEN "no_config"
    ELSE IF table[PathBufFrom(filename)].pack = name THEN "place"
    ELSE "ignored"

UpToDateNever(file, read, body) == FALSE

\* what reading the target for the comparison can give
ReadOutcomes(file) ==
    IF file.exists THEN {"read", "open_failed", "read_failed"} ELSE {"open_failed"}

\* place_file_if_updated: the file could be read and has the body's digest
UpToDate(file, read, body) ==
    read = "read" /\ DigestForBytes(file.data) = DigestForBytes(body)

\* what a call keeps of the call before it: whether that one was for the
\* same target with the same body, and if so what it did
Prior(last, path, body) ==
    IF last.ret # "none" /\ last.target = path /\ last.body = body
    THEN [same |-> TRUE, creates |-> last.creates, renames |-> last.renames,
          hooks |-> Len(last.hooks)]
    ELSE [same |-> FALSE, creates |-> 0, renames |-> 0, hooks |-> 0]

\* the errors Pack::verify_and_decrypt (placer-pack) returns for a delivery
VerifyFailures == {"Parse", "InvalidKey", "Crypto"}

\* the coordinator's Pack::verify_and_decrypt: Some(pack) for a verified pack,
\* None (and an error in the log) for any error
VerifyWrapper(status) == IF status = "Ok" THEN "Some" ELSE "None"

MainLoopFatal(option) == IF option = "Some" THEN "route" ELSE "exited"

\* the loop of main: process_pack for Some(pack), the next get_next_pack
\* otherwise
MainLoop(option) == IF option = "Some" THEN "route" ELSE "recv"

\* the loop of main: process_pack is through with the pack before, and
\* get_next_pack returns no pack because the delivery does not verify
DiscardPack ==
    /\ co \in {"recv", "route"}
    /\ \E label \in PackNames, status \in VerifyFailures :
          /\ routed' = [filename |-> "", pack |-> label, outcome |-> status]
          /\ co' = MainLoop(VerifyWrapper(status))
    /\ packName' = ""
    /\ UNCHANGED <<targets, fs, cur>>
    /\ UNCHANGED packVars
    /\ UNCHANGED <<sourceVars, unitVars>>

\* the loop of main: process_pack is through with the pack before, and
\* get_next_pack hands over the next verified pack
ReceivePack ==
    /\ co \in {"recv", "route"}
    /\ packName' \in PackNames
    /\ co' = MainLoop(VerifyWrapper("Ok"))
    /\ routed' = NothingRouted
    /\ UNCHANGED <<targets, fs, cur>>
    /\ UNCHANGED packVars
    /\ UNCHANGED <<sourceVars, unitVars>>

\* one iteration of process_pack, place_file_if_updated up to the call of
\* TargetFile::place
ProcessFile ==
    /\ co = "route"
    /\ \E filename \in RoutedFilenames, body \in PlacedBodies :
          LET outcome == Route(targets, packName, filename)
              path == PathBufFrom(filename)
          IN  /\ routed' = [filename |-> filename, pack |-> packName, outcome |-> outcome]
              /\ IF outcome # "place"
                 THEN UNCHANGED <<fs, co, cur>>
                 ELSE \E read \in ReadOutcomes(fs[path]) :
                        LET call == [NoCall EXCEPT !.target = path, !.body = body,
                                                   !.before = fs[path],
                                                   !.read = read,
                                                   !.prior = Prior(cur, path, body)]
                        IN  /\ IF UpToDate(fs[path], read, body)
                               THEN /\ cur' = [call EXCEPT !.ret = "identical"]
                                    /\ UNCHANGED co
                               ELSE /\ cur' = [call EXCEPT !.pc = "create"]
                                    /\ co' = "placing"
                            /\ UNCHANGED fs
    /\ UNCHANGED <<targets, packName>>
    /\ UNCHANGED packVars
    /\ UNCHANGED <<sourceVars, unitVars>>

----------------------------------------------------------------------------
(* TargetFile::place *)

Target == targets[cur.target]

TempIsTarget == cur.target

\* the temp path of the placement under way
Temp == TempPath(cur.target)

\* place returns to place_file_if_updated, which logs and returns
Returned(call, ret) == [call EXCEPT !.pc = "returned", !.ret = ret]

\* the stale temp file is removed, the temp file is created empty
P_Create ==
    /\ co = "placing" /\ cur.pc = "create"
    /\ \/ /\ fs' = [fs EXCEPT ![Temp] = File(<<>>)]
          /\ cur' = [cur EXCEPT !.pc = "write", !.creates = @ + 1]
          /\ UNCHANGED co
       \/ /\ fs' = [fs EXCEPT ![Temp] = Absent]
          /\ cur' = Returned(cur, "Io")
          /\ co' = "route"
    /\ UNCHANGED <<targets, packName, routed>>
    /\ UNCHANGED packVars
    /\ UNCHANGED <<sourceVars, unitVars>>

\* file.write_all(body): all of it, or an error after a part of it
P_Write ==
    /\ co = "placing" /\ cur.pc = "write"
    /\ \/ /\ fs' = [fs EXCEPT ![Temp] = File(cur.body)]
          /\ cur' = [cur EXCEPT !.pc = "chown"]
          /\ UNCHANGED co
       \/ /\ \E k \in 0..(Len(cur.body) - 1) :
                fs' = [fs EXCEPT ![Temp] = File(SubSeq(cur.body, 1, k))]
          /\ cur' = Returned(cur, "Io")
          /\ co' = "route"
    /\ UNCHANGED <<targets, packName, routed>>
    /\ UNCHANGED packVars
    /\ UNCHANGED <<sourceVars, unitVars>>

AfterChownSkipHooks(call, target) == [call EXCEPT !.pc = "rename"]

\* after the chown: the before-hook loop, or the rename when there is none
AfterChown(call, target) ==
    IF target.before_hooks # <<>> THEN [call EXCEPT !.pc = "before", !.i = 1]
    ELSE [call EXCEPT !.pc = "rename"]

\* chown(&temp_path, uid, gid)
P_Chown ==
    /\ co = "placing" /\ cur.pc = "chown"
    /\ \/ /\ cur' = AfterChown(cur, Target)
          /\ UNCHANGED co
       \/ /\ cur' = Returned(cur, "Io")
          /\ co' = "route"
    /\ UNCHANGED <<targets, fs, packName, routed>>
    /\ UNCHANGED packVars
    /\ UNCHANGED <<sourceVars, unitVars>>

\* Hook::run: the arguments with %f replaced by the path given, and Ok only
\* for exit status 0
HookRun(hook, file_path, outcome) ==
    [path |-> hook.path,
     args |-> [n \in DOMAIN hook.args |->
                 IF hook.args[n] = FILENAME_PLACEHOLDER
                 THEN [lit |-> "", path |-> file_path]
                 ELSE [lit |-> hook.args[n], path |-> <<>>]],
     outcome |-> outcome,
     ok |-> outcome = "exit0"]

AfterBeforeHookIgnoreFailure(call, target, run) ==
    LET logged == [call EXCEPT !.hooks = Append(@, [run EXCEPT !.ok = TRUE] @@ [phase |-> "before"])]
    IN  IF call.i < Len(target.before_hooks) THEN [logged EXCEPT !.i = @ + 1]
        ELSE [logged EXCEPT !.pc = "rename"]

\* the before-hook loop: a failed hook ends the placement
AfterBeforeHook(call, target, run) ==
    LET logged == [call EXCEPT !.hooks = Append(@, run @@ [phase |-> "before"])]
    IN  IF ~run.ok THEN Returned(logged, "Hook")
        ELSE IF call.i < Len(target.before_hooks) THEN [logged EXCEPT !.i = @ + 1]
        ELSE [logged EXCEPT !.pc = "rename"]

\* the hook the placement is at
NextHook ==
    IF cur.pc = "before" THEN Target.before_hooks[cur.i] ELSE Target.after_hooks[cur.i]

\* Hook::run, Command::spawn succeeding: the hook's process runs
P_SpawnHook ==
    /\ co = "placing" /\ cur.pc \in {"before", "after"}
    /\ cur.child = 0
    /\ cur' = [cur EXCEPT !.child = NextHook.path]
    /\ UNCHANGED <<targets, fs, co, packName, routed>>
    /\ UNCHANGED packVars
    /\ UNCHANGED <<sourceVars, unitVars>>

\* Hook::run returns: the spawn has failed, or the child spawned has been
\* waited for
Waited(call, outcome) ==
    /\ (outcome = "spawn_failed") = (call.child = 0)
    /\ call.child # 0 => call.child = NextHook.path

\* hook.run(&temp_path) for the next before-hook; on an error the temp file
\* is removed and the error returned
P_BeforeHook ==
    /\ co = "placing" /\ cur.pc = "before"
    /\ \E outcome \in HookOutcomes :
          LET run == HookRun(Target.before_hooks[cur.i], Temp, outcome)
          IN  /\ Waited(cur, outcome)
              /\ cur' = AfterBeforeHook([cur EXCEPT !.child = 0], Target, run)
              /\ IF cur'.pc = "returned"
                 THEN fs' = [fs EXCEPT ![Temp] = Absent] /\ co' = "route"
                 ELSE UNCHANGED <<fs, co>>
    /\ UNCHANGED <<targets, packName, routed>>
    /\ UNCHANGED packVars
    /\ UNCHANGED <<sourceVars, unitVars>>

AfterRename(call, target) ==
    IF target.after_hooks # <<>> THEN [call EXCEPT !.pc = "after", !.i = 1, !.renames = @ + 1]
    ELSE Returned([call EXCEPT !.renames = @ + 1], "Ok")

\* fs::rename(&temp_path, &self.path)
P_Rename ==
    /\ co = "placing" /\ cur.pc = "rename"
    /\ \/ /\ fs' = [fs EXCEPT ![cur.target] = fs[Temp], ![Temp] = Absent]
          /\ cur' = AfterRename(cur, Target)
          /\ co' = IF cur'.pc = "returned" THEN "route" ELSE co
       \/ /\ cur' = Returned(cur, "Io")
          /\ co' = "route"
          /\ UNCHANGED fs
    /\ UNCHANGED <<targets, packName, routed>>
    /\ UNCHANGED packVars
    /\ UNCHANGED <<sourceVars, unitVars>>

AfterAfterHookSwallowFailure(call, target, run) ==
    LET logged == [call EXCEPT !.hooks = Append(@, run @@ [phase |-> "after"])]
    IN  IF call.i < Len(target.after_hooks) THEN [logged EXCEPT !.i = @ + 1]
        ELSE Returned(logged, "Ok")

AfterAfterHookRunsTheRest(call, target, run) ==
    LET logged == [call EXCEPT !.hooks = Append(@, run @@ [phase |-> "after"])]
    IN  IF call.i < Len(target.after_hooks) THEN [logged EXCEPT !.i = @ + 1]
        ELSE Returned(logged, IF \A n \in DOMAIN logged.hooks : logged.hooks[n].ok
                              THEN "Ok" ELSE "Hook")

\* the after-hook loop: hook.run(&temp_path)?
AfterAfterHook(call, target, run) ==
    LET logged == [call EXCEPT !.hooks = Append(@, run @@ [phase |-> "after"])]
    IN  IF ~run.ok THEN Returned(logged, "Hook")
        ELSE IF call.i < Len(target.after_hooks) THEN [logged EXCEPT !.i = @ + 1]
        ELSE Returned(logged, "Ok")

AfterHookPathIsTarget == cur.target

\* the path the after-hooks are run with: hook.run(&temp_path)
AfterHookPath == Temp

\* hook.run(&temp_path)? for the next after-hook
P_AfterHook ==
    /\ co = "placing" /\ cur.pc = "after"
    /\ \E outcome \in HookOutcomes :
          LET run == HookRun(Target.after_hooks[cur.i], AfterHookPath, outcome)
          IN  /\ Waited(cur, outcome)
              /\ cur' = AfterAfterHook([cur EXCEPT !.child = 0], Target, run)
    /\ co' = IF cur'.pc = "returned" THEN "route" ELSE co
    /\ UNCHANGED <<targets, fs, packName, routed>>
    /\ UNCHANGED packVars
    /\ UNCHANGED <<sourceVars, unitVars>>

NextPlace ==
    \/ ReceivePack
    \/ DiscardPack
    \/ ProcessFile
    \/ P_Create
    \/ P_Write
    \/ P_Chown
    \/ P_SpawnHook
    \/ P_BeforeHook
    \/ P_Rename
    \/ P_AfterHook

SpecPlace == InitPlace /\ [][NextPlace]_vars

\* a `files` table in which the path of one target is the temp path of
\* another: /etc/hello and /etc/.placer-tmp-hello
CollidingFiles ==
    (<<"etc", "hello">> :>
        [pack |-> "A",
         before_hooks |-> <<[path |-> 1, args |-> <<FILENAME_PLACEHOLDER>>]>>,
         after_hooks |-> <<[path |-> 2, args |-> <<"reload">>]>>])
    @@
    (TempPath(<<"etc", "hello">>) :>
        [pack |-> "B", before_hooks |-> <<>>, after_hooks |-> <<>>])

\* the coordinator has loaded that table: process_file_config accepts it
InitColliding ==
    /\ PackOff
    /\ SourceOff
    /\ UnitsOff
    /\ targets = process_file_config([p \in DOMAIN CollidingFiles |-> FileConfig(CollidingFiles[p])])
    /\ \E content \in [DOMAIN CollidingFiles -> {Absent} \cup {File(b) : b \in PlacedBodies}] :
          fs = [p \in AllPaths(CollidingFiles) |->
                  IF p \in DOMAIN CollidingFiles THEN content[p] ELSE Absent]
    /\ co = "recv"
    /\ packName = ""
    /\ cur = NoCall
    /\ routed = NothingRouted

SpecColliding == InitColliding /\ [][NextPlace]_vars

----------------------------------------------------------------------------
(* Claims about the placement pipeline, checked under SpecPlace *)

\* the routed file names a target whose configured pack is the pack's label
Matches(filename, label) ==
    /\ PathBufFrom(filename) \in DOMAIN targets
    /\ targets[PathBufFrom(filename)].pack = label

\* C7: process_pack attempts a placement for a pack file only when the file's
\* path is a key of the target table and that target's configured pack is the
\* label the pack was delivered under; a file of a target configured for
\* another pack, and a file with no target entry, change no file and run no
\* hook.
C7_RoutingExclusion ==
    /\ [][(routed'.outcome # "none" /\ ~Matches(routed'.filename, routed'.pack))
             => (fs' = fs /\ cur' = cur /\ co' # "placing")]_vars
    /\ [](co = "placing" =>
             /\ Matches(routed.filename, routed.pack)
             /\ cur.target = PathBufFrom(routed.filename))

C7_Witness ==
    /\ routed.filename = "/etc/motd" /\ routed.pack = "A"
    /\ routed.outcome = "ignored"
    /\ targets[PathBufFrom(routed.filename)].pack = "B"
    /\ cur.target = <<"etc", "hello">>

\* C8: when a before-hook exits non-zero, is killed by a signal or cannot be
\* spawned, place returns a Hook error, no later before-hook and no after-hook
\* is run, the rename is not performed, the temp file is removed and the
\* target holds what it held before the call.
C8_BeforeHookFailureAborts ==
    \A n \in DOMAIN cur.hooks :
        (cur.hooks[n].phase = "before" /\ cur.hooks[n].outcome # "exit0") =>
            /\ n = Len(cur.hooks)
            /\ cur.pc = "returned" /\ cur.ret = "Hook"
            /\ cur.renames = 0
            /\ ~fs[TempPath(cur.target)].exists
            /\ fs[cur.target] = cur.before

C8_Witness ==
    /\ cur.ret = "Hook" /\ Len(cur.hooks) = 1
    /\ cur.hooks[1].phase = "before" /\ cur.hooks[1].outcome = "signal"
    /\ Len(targets[cur.target].before_hooks) = 2
    /\ fs[cur.target].exists /\ fs[cur.target].data # cur.body

SecondOfTwo == cur.prior.same /\ cur.pc = "returned"

HeldBody == cur.before.exists /\ cur.read = "read" /\ cur.before.data = cur.body

\* C11: when the target exists, can be read and has the SHA-256 of the
\* proposed body, place_file_if_updated changes no file and runs nothing (no
\* temp file created or removed, no hook, no rename); when the target is
\* missing or its content differs, a placement is attempted.
C11_SkipWhenIdentical ==
    /\ [][cur'.ret = "identical" => fs' = fs]_vars
    /\ [](HeldBody =>
             /\ cur.ret = "identical" /\ cur.pc = "returned"
             /\ cur.creates = 0 /\ cur.renames = 0 /\ cur.hooks = <<>>)
    /\ []((cur.target \in DOMAIN targets /\ ~HeldBody
              /\ (~cur.before.exists \/ cur.read = "read")) =>
             /\ cur.ret # "identical"
             /\ cur.pc = "returned" => cur.ret \in {"Ok", "Io", "Hook"})

C11_Witness ==
    /\ HeldBody /\ cur.ret = "identical" /\ ~cur.prior.same
    /\ cur.target = <<"etc", "hello">> /\ cur.body = <<1, 2>>
    /\ fs[TempPath(cur.target)] = File(<<3>>)

\* C12: when an after-hook fails, the target keeps the newly placed body (the
\* rename is not undone, nothing is restored) and place returns the error,
\* which place_file_if_updated reports.
C12_AfterHookFailureKeepsBody ==
    \A n \in DOMAIN cur.hooks :
        (cur.hooks[n].phase = "after" /\ cur.hooks[n].outcome # "exit0") =>
            /\ cur.pc = "returned" /\ cur.ret = "Hook"
            /\ cur.renames = 1
            /\ fs[cur.target] = File(cur.body)

C12_Witness ==
    /\ cur.ret = "Hook" /\ Len(cur.hooks) = 3
    /\ cur.hooks[3].phase = "after" /\ cur.hooks[3].outcome = "exit1"
    /\ cur.before = File(<<3>>) /\ fs[cur.target] = File(<<1, 2>>)

\* the placement ended when one of its after-hooks failed
AfterHookFailed(call) ==
    /\ call.pc = "returned" /\ call.ret = "Hook"
    /\ call.renames = 1

C40_PlacementFrame ==
    [][\A p \in DOMAIN fs :
          fs'[p] # fs[p] =>
              /\ co = "placing"
              /\ p \in {cur.target, TempPath(cur.target)}
              /\ p \in DOMAIN targets => p = cur.target]_vars

\* C13: the before-hooks of a target run in the order in which the
\* configuration declares them, and likewise its after-hooks.
C13_HooksInDeclaredOrder ==
    \A n \in DOMAIN cur.hooks :
        LET declared == DeclaredFiles[cur.target]
            nb == Len(declared.before_hooks)
        IN  IF cur.hooks[n].phase = "before"
            THEN cur.hooks[n].path = declared.before_hooks[n].path
            ELSE cur.hooks[n].path = declared.after_hooks[n - nb].path

\* the delivery handled last failed verification
Discarded == routed.outcome \in VerifyFailures

\* C18: a delivered pack that fails verification (Parse, InvalidKey or Crypto
\* error) is discarded without any change of a file and without a hook run,
\* the coordinator stays in its loop, and a verified pack delivered next is
\* handed to process_pack.
C18_BadPackDiscarded ==
    /\ [][Discarded' => (fs' = fs /\ cur' = cur /\ co' = "recv")]_vars
    /\ [](Discarded => (co = "recv" /\ ENABLED ReceivePack))
    /\ [][(Discarded /\ ~Discarded') => (co' = "route" /\ packName' \in PackNames)]_vars

C18_Witness ==
    /\ Discarded /\ routed.outcome = "Crypto" /\ co = "recv"
    /\ cur.ret = "Ok" /\ fs[cur.target] = File(cur.body)

\* the before-hooks of the placement have all run and exited with status 0
BeforeHooksDone ==
    /\ Len(cur.hooks) >= Len(Target.before_hooks)
    /\ \A k \in DOMAIN Target.before_hooks :
          /\ cur.hooks[k].phase = "before"
          /\ cur.hooks[k].path = Target.before_hooks[k].path
          /\ cur.hooks[k].outcome = "exit0"

\* C28: in every execution of place, every before-hook has exited
\* successfully before the rename, the rename happens at most once, no
\* after-hook is spawned before the rename has succeeded, and a hook is
\* spawned only when no other hook of the placement is running, every hook
\* run before it having been waited for.
C28_HooksAroundRename ==
    /\ [](cur.target \in DOMAIN targets =>
             /\ cur.renames <= 1
             /\ (cur.pc = "rename" \/ cur.renames = 1) =>
                    (BeforeHooksDone /\ (cur.pc = "rename" => cur.child = 0))
             /\ (cur.pc = "after"
                    \/ \E n \in DOMAIN cur.hooks : cur.hooks[n].phase = "after") =>
                    (cur.renames = 1 /\ fs[cur.target] = File(cur.body))
             /\ cur.child # 0 => (co = "placing" /\ cur.pc \in {"before", "after"}))
    /\ [][(cur'.child # 0 /\ cur'.child # cur.child) =>
             /\ cur.child = 0
             /\ cur'.hooks = cur.hooks
             /\ \A n \in DOMAIN cur.hooks : cur.hooks[n].outcome = "exit0"
             /\ cur'.pc = "before" => cur.renames = 0
             /\ cur'.pc = "after" => cur.renames = 1]_vars
    /\ [][cur'.renames > cur.renames =>
             (cur.pc = "rename" /\ cur.renames = 0 /\ cur.child = 0 /\ BeforeHooksDone)]_vars

\* the second after-hook runs, after both before-hooks, the rename and the
\* first after-hook
C28_Witness ==
    /\ co = "placing" /\ cur.pc = "after" /\ cur.child = 4
    /\ Len(cur.hooks) = 3 /\ cur.renames = 1
    /\ cur.hooks[1].phase = "before" /\ cur.hooks[2].phase = "before"
    /\ cur.hooks[3].phase = "after"

\* the hook of the target that the n-th run of the placement is a run of
HookOfRun(n) ==
    IF cur.hooks[n].phase = "before" THEN Target.before_hooks[n]
    ELSE Target.after_hooks[n - Len(Target.before_hooks)]

\* C30: in a placement every after-hook is invoked with each argument equal
\* to %f replaced by the temp-file path, the path the before-hooks of the
\* placement received, and with every other argument as configured.
C30_AfterHookGetsTempPath ==
    cur.target \in DOMAIN targets =>
        \A n \in DOMAIN cur.hooks :
            LET run == cur.hooks[n]
                hook == HookOfRun(n)
            IN  /\ run.path = hook.path
                /\ DOMAIN run.args = DOMAIN hook.args
                /\ \A k \in DOMAIN hook.args :
                      IF hook.args[k] = FILENAME_PLACEHOLDER
                      THEN /\ run.args[k].path = TempPath(cur.target)
                           /\ run.args[k].path # cur.target
                           /\ \A m \in 1..(n - 1) :
                                 \A j \in DOMAIN cur.hooks[m].args :
                                    cur.hooks[m].args[j].path \in {<<>>, run.args[k].path}
                      ELSE run.args[k] = [lit |-> hook.args[k], path |-> <<>>]

\* an after-hook has run with the temp path, which the rename has moved away,
\* after a before-hook that received the same path
C30_Witness ==
    /\ cur.target = <<"etc", "hello">> /\ cur.renames = 1
    /\ Len(cur.hooks) >= 3
    /\ cur.hooks[1].phase = "before"
    /\ cur.hooks[1].args[2].path = <<"etc", ".placer-tmp-hello">>
    /\ cur.hooks[3].phase = "after" /\ cur.hooks[3].outcome = "exit0"
    /\ cur.hooks[3].args[1].path = <<"etc", ".placer-tmp-hello">>
    /\ ~fs[<<"etc", ".placer-tmp-hello">>].exists

----------------------------------------------------------------------------
(* The source supervisor (source.rs) and the startup of main (main.rs).     *)
(* The fetcher is an untrusted child: what it writes to its stdout is any   *)
(* sequence of bytes.  A byte stream is a sequence of runs [n, c]: n copies *)
(* of the character c; only the filler byte "x" comes in runs longer than   *)
(* one, so that a body of MAX_PACK_SIZE bytes is one run.  "<ff>" stands    *)
(* for a byte that is not valid UTF-8.                                      *)

MAX_PACK_SIZE == 1048576

PLACER_SOURCE_PREFIX == "placer-source-"

GREETING_PREFIX == <<"O", "K", " ">>

Ch(c) == [n |-> 1, c |-> c]

Run(n, c) == IF n = 0 THEN <<>> ELSE <<[n |-> n, c |-> c]>>

\* the bytes of a text
Text(chars) == [i \in DOMAIN chars |-> Ch(chars[i])]

RECURSIVE TotalLen(_)
TotalLen(stream) ==
    IF stream = <<>> THEN 0 ELSE stream[1].n + TotalLen(Tail(stream))

RECURSIVE Take(_, _)
\* the first k bytes of a stream and what follows them
Take(stream, k) ==
    IF k = 0 \/ stream = <<>> THEN [data |-> <<>>, rest |-> stream]
    ELSE IF stream[1].n <= k
         THEN LET more == Take(Tail(stream), k - stream[1].n)
              IN  [data |-> <<stream[1]>> \o more.data, rest |-> more.rest]
         ELSE [data |-> <<[stream[1] EXCEPT !.n = k]>>,
               rest |-> <<[stream[1] EXCEPT !.n = @ - k]>> \o Tail(stream)]

HasNewline(stream) == \E i \in DOMAIN stream : stream[i].c = "\n"

\* BufRead::read_line on a pipe: blocks until a newline or the end of the
\* stream; gives the line with its newline, and an error for a line that is
\* not valid UTF-8
ReadLine(stream, eof) ==
    IF ~HasNewline(stream) /\ ~eof THEN [blocked |-> TRUE]
    ELSE LET end == CHOOSE i \in DOMAIN stream :
                        /\ stream[i].c = "\n"
                        /\ \A j \in 1..(i - 1) : stream[j].c # "\n"
             cut == IF HasNewline(stream)
                    THEN Take(stream, TotalLen(SubSeq(stream, 1, end - 1)) + 1)
                    ELSE [data |-> stream, rest |-> <<>>]
         IN  [blocked |-> FALSE,
              ok |-> \A i \in DOMAIN cut.data : cut.data[i].c # "<ff>",
              line |-> cut.data,
              rest |-> cut.rest]

\* Read::read_exact on a pipe: blocks until k bytes are there, an error when
\* the stream ends before
ReadExact(stream, eof, k) ==
    IF TotalLen(stream) < k /\ ~eof THEN [blocked |-> TRUE]
    ELSE [blocked |-> FALSE,
          ok |-> TotalLen(stream) >= k,
          data |-> Take(stream, k).data,
          rest |-> Take(stream, k).rest]

IsWhitespace(c) == c \in {" ", "\t", "\n", "\r"}

RECURSIVE SplitWhitespace(_)
\* str::split_whitespace: the maximal pieces without whitespace
SplitWhitespace(line) ==
    IF line = <<>> THEN <<>>
    ELSE IF IsWhitespace(line[1].c) THEN SplitWhitespace(Tail(line))
    ELSE LET more == SplitWhitespace(Tail(line))
         IN  IF Len(line) > 1 /\ ~IsWhitespace(line[2].c)
             THEN <<(<<line[1]>> \o more[1])>> \o Tail(more)
             ELSE <<(<<line[1]>>)>> \o more

\* a field as a string; a field with a long run of filler is no string the
\* configuration holds
FieldString(field) ==
    IF \A i \in DOMAIN field : field[i].n = 1
    THEN [i \in DOMAIN field |-> field[i].c]
    ELSE <<"<long>">>

DecimalDigits == <<"0", "1", "2", "3", "4", "5", "6", "7", "8", "9">>

DigitValue(c) == (CHOOSE d \in DOMAIN DecimalDigits : DecimalDigits[d] = c) - 1

RECURSIVE StripZeros(_)
StripZeros(digits) ==
    IF digits # <<>> /\ digits[1] = "0" THEN StripZeros(Tail(digits)) ELSE digits

RECURSIVE DigitsValue(_)
DigitsValue(digits) ==
    IF digits = <<>> THEN 0
    ELSE 10 * DigitsValue(SubSeq(digits, 1, Len(digits) - 1))
           + DigitValue(digits[Len(digits)])

\* u32::MAX = 4294967295 as digits
U32MaxDigits == <<"4", "2", "9", "4", "9", "6", "7", "2", "9", "5">>

RECURSIVE DigitsLeq(_, _)
\* comparison of two digit strings of the same length
DigitsLeq(a, b) ==
    IF a = <<>> THEN TRUE
    ELSE IF a[1] = b[1] THEN DigitsLeq(Tail(a), Tail(b))
    ELSE DigitValue(a[1]) < DigitValue(b[1])

\* the value every u32 above MAX_PACK_SIZE that has ten digits is kept as:
\* only the comparison with MAX_PACK_SIZE reads it
TenDigits == 1000 * 1000 * 1000

\* str::parse::<u32>: an optional "+", then one or more decimal digits, the
\* value at most u32::MAX
ParseU32(field) ==
    LET str == FieldString(field)
        digits == IF str # <<>> /\ str[1] = "+" THEN Tail(str) ELSE str
        value == StripZeros(digits)
    IN  IF digits = <<>> \/ \E i \in DOMAIN digits : digits[i] \notin Range(DecimalDigits)
        THEN Err("Source")
        ELSE IF Len(value) > Len(U32MaxDigits) THEN Err("Source")
        ELSE IF Len(value) = Len(U32MaxDigits)
             THEN IF DigitsLeq(value, U32MaxDigits) THEN Ok(TenDigits) ELSE Err("Source")
        ELSE Ok(DigitsValue(value))

----------------------------------------------------------------------------
(* Inputs of the startup and source scenario *)

MaxDeliveries == 2

MaxPipe == 5

\* `sources` tables of the host configuration; a source's packs are listed in
\* the order of their labels, which is the order a BTreeMap gives them in
SourcesTables ==
    LET entry(packs) == [user |-> "nobody", group |-> "nobody", packs |-> packs]
        A(r) == [label |-> "A", resource |-> r]
        B(r) == [label |-> "B", resource |-> r]
    IN  { [n \in {"http"} |-> entry(<<A(<<"a">>), B(<<"a", "b">>)>>)],
          [n \in {"http", "s3"} |->
              IF n = "http" THEN entry(<<A(<<"a">>)>>) ELSE entry(<<B(<<"b">>)>>)],
          [n \in {"s3"} |-> entry(<<A(<<"a">>)>>)],
          [n \in {"http"} |-> entry(<<A(<<"a">>), B(<<"a">>)>>)] }

\* first lines a fetcher may write
GreetingChunks ==
    { Text(<<"O", "K", " ", "f", "\n">>),
      Text(<<"O", "K", " ", "\n">>),
      Text(<<"O", "K", "\n">>),
      Text(<<"E", "R", "R", " ", "O", "K", " ", "\n">>),
      Text(<<"<ff>", "\n">>),
      Text(<<"O", "K", " ", "<ff>", "\n">>),
      Text(<<"O", "K", " ", "f">>) }

\* header lines a fetcher may write that next_file reads a body after, with
\* their newline unless cut short
HeaderChunks ==
    { Text(<<"2", " ", "a", "\n">>),
      Text(<<" ", "2", "\t", " ", "a", " ", "\n">>),
      Text(<<"+", "2", " ", "a", "\n">>),
      Text(<<"0", "2", " ", "a", "b", "\n">>),
      Text(<<"0", " ", "a", "\n">>),
      Text(<<"2", " ", "b", "\n">>),
      Text(<<"2", " ", "a">>),
      Text(<<"1", "0", "4", "8", "5", "7", "6", " ", "a", "\n">>) }

\* header lines a fetcher may write that next_file refuses
BadHeaderChunks ==
    { Text(<<"2", " ", "a", " ", "b", "\n">>),
      Text(<<"2", "\n">>),
      Text(<<"\n">>),
      Text(<<"-", "2", " ", "a", "\n">>),
      Text(<<"2", "x", " ", "a", "\n">>),
      Text(<<"a", " ", "2", "\n">>),
      Text(<<"2", " ", "<ff>", "\n">>),
      Text(<<"1", "0", "4", "8", "5", "7", "7", " ", "a", "\n">>),
      Text(<<"4", "2", "9", "4", "9", "6", "7", "2", "9", "6", " ", "a", "\n">>) }

\* what a fetcher may write after a header
BodyChunks ==
    { <<>>, Run(1, "x"), Run(2, "x"), Text(<<"\n", "x">>), Run(3, "x"),
      Run(MAX_PACK_SIZE, "x") }

\* what a fetcher may write after a body
MarkerChunks == { Text(<<"\n">>), <<>>, Text(<<"\n", "\n">>) }

DeliveryChunks ==
    {h \o b \o m : h \in HeaderChunks, b \in BodyChunks, m \in MarkerChunks}
        \cup BadHeaderChunks

\* what a fetcher may add to a line or a body the supervisor waits for the
\* end of
ContinuationChunks == { Text(<<"\n">>) }

\* no Source: main has not come to Source::new
NoSource ==
    [pc |-> "none", resources |-> <<>>,
     stdin |-> <<>>, flushed |-> FALSE, stdin_open |-> FALSE,
     stdout |-> <<>>, eof |-> FALSE,
     length |-> 0, resource |-> <<>>, data |-> <<>>,
     result |-> [ok |-> FALSE, err |-> "none"]]

InitSource ==
    /\ PackOff
    /\ PlaceOff
    /\ UnitsOff
    /\ \E table \in SourcesTables :
          boot = [pc |-> "config", sources |-> table, exit |-> 0, failed |-> "none",
                  done |-> {}, spawned |-> <<>>, verified |-> 0]
    /\ source = NoSource

----------------------------------------------------------------------------
(* Startup of main *)

\* process::exit(1)
ExitFailure == 1

\* the exit status of a Rust program that panics
PanicExit == 101

\* the source main configures
HardWiredSource == "http"

StartupSourceFirst == <<"config", "sources", "keyrings", "files">>

\* the order of main: Config::load, Keyrings::load, process_file_config,
\* Source::new
Startup == <<"config", "keyrings", "files", "sources">>

\* main after the startup step `step` has succeeded
AfterStep(step) ==
    LET i == CHOOSE n \in DOMAIN Startup : Startup[n] = step
    IN  [boot EXCEPT !.done = @ \cup {step},
                     !.pc = IF i < Len(Startup) THEN Startup[i + 1] ELSE "running"]

LogAndContinue(frame, step) == [frame EXCEPT !.failed = step]

\* crit!(...); process::exit(1)
Exit(frame, step) ==
    [frame EXCEPT !.pc = "exited", !.exit = ExitFailure, !.failed = step]

\* Config::load(&opts.config).unwrap_or_else(exit)
M_LoadConfig ==
    /\ boot.pc = "config"
    /\ \E outcome \in {"ok", "cannot_open", "cannot_parse"} :
          boot' = IF outcome = "ok" THEN AfterStep("config") ELSE Exit(boot, "config")
    /\ UNCHANGED source
    /\ UNCHANGED <<packVars, placeVars, unitVars>>

\* Keyrings::load(&config.keyrings).unwrap_or_else(exit)
M_LoadKeyrings ==
    /\ boot.pc = "keyrings"
    /\ \E outcome \in {"ok", "bad_permissions", "bad_key"} :
          boot' = IF outcome = "ok" THEN AfterStep("keyrings") ELSE Exit(boot, "keyrings")
    /\ UNCHANGED source
    /\ UNCHANGED <<packVars, placeVars, unitVars>>

\* process_file_config: TargetFile::new for every entry of `files`, with
\* Hook::new for every hook of it; an error of either ends the process
M_ProcessFileConfig ==
    /\ boot.pc = "files"
    /\ \E outcome \in {"ok", "bad_target", "bad_hook"} :
          boot' = IF outcome = "ok" THEN AfterStep("files") ELSE Exit(boot, "files")
    /\ UNCHANGED source
    /\ UNCHANGED <<packVars, placeVars, unitVars>>

\* Source::new: the reverse mapping of resources to pack labels; two labels
\* with one resource are a Config error
ReverseMap(packs) ==
    IF \E i, j \in DOMAIN packs : i # j /\ packs[i].resource = packs[j].resource
    THEN Err("Config")
    ELSE Ok([r \in {packs[i].resource : i \in DOMAIN packs} |->
               (CHOOSE e \in Range(packs) : e.resource = r).label])

\* what the environment makes of Source::new up to the spawn
SpawnOutcomes == {"ok", "invalid_user", "invalid_group", "no_executable", "spawn_failed"}

\* main from the choice of the source to the spawn of its fetcher in
\* Source::new; the table is indexed with the hard-wired name, which panics
\* when the table has no such entry
M_SpawnSource ==
    /\ boot.pc = "sources"
    /\ IF HardWiredSource \notin DOMAIN boot.sources
       THEN /\ boot' = [boot EXCEPT !.pc = "exited", !.exit = PanicExit, !.failed = "panic"]
            /\ UNCHANGED source
       ELSE \E outcome \in SpawnOutcomes :
              LET config == boot.sources[HardWiredSource]
                  resources == ReverseMap(config.packs)
              IN  IF outcome \in {"invalid_user", "invalid_group"}
                     \/ ~resources.ok \/ outcome # "ok"
                  THEN /\ boot' = Exit(boot, "sources")
                       /\ UNCHANGED source
                  ELSE /\ boot' = [boot EXCEPT !.spawned = Append(@, HardWiredSource),
                                               !.pc = "source_new"]
                       /\ source' = [NoSource EXCEPT !.pc = "greeting",
                                                     !.resources = resources.val,
                                                     !.stdin_open = TRUE]
    /\ UNCHANGED <<packVars, placeVars, unitVars>>

----------------------------------------------------------------------------
(* Source::new from read_greeting on, Source::next_file, get_next_pack *)

StartsWithAnything(line, prefix) == TRUE

\* String::starts_with
StartsWith(line, prefix) ==
    /\ Len(line) >= Len(prefix)
    /\ \A i \in DOMAIN prefix : line[i] = Ch(prefix[i])

RECURSIVE TrimEnd(_)
\* str::trim_end
TrimEnd(line) ==
    IF line # <<>> /\ IsWhitespace(line[Len(line)].c)
    THEN TrimEnd(SubSeq(line, 1, Len(line) - 1))
    ELSE line

\* read_greeting: the first line must start with GREETING_PREFIX; the
\* greeting is what follows, without trailing whitespace
read_greeting(stdout, eof) ==
    LET r == ReadLine(stdout, eof)
    IN  IF ~r.ok THEN Err("Io")
        ELSE IF ~StartsWith(r.line, GREETING_PREFIX) THEN Err("Source")
        ELSE Ok(TrimEnd(SubSeq(r.line, Len(GREETING_PREFIX) + 1, Len(r.line))))

\* request_resources: one line per resource, then an empty line
request_resources(packs) ==
    [i \in 1..(Len(packs) + 1) |-> IF i <= Len(packs) THEN packs[i].resource ELSE <<>>]

\* Source::new from read_greeting to its return, and main's exit on its error
S_Greeting ==
    /\ source.pc = "greeting"
    /\ ~ReadLine(source.stdout, source.eof).blocked
    /\ LET greeting == read_greeting(source.stdout, source.eof)
           rest == ReadLine(source.stdout, source.eof).rest
       IN  IF ~greeting.ok
           THEN /\ source' = [source EXCEPT !.pc = "failed", !.stdout = rest,
                                            !.result = greeting]
                /\ boot' = Exit(boot, "sources")
           ELSE \E write \in {"ok", "failed"} :
                  IF write = "failed"
                  THEN /\ source' = [source EXCEPT !.pc = "failed", !.stdout = rest,
                                                   !.result = Err("Io")]
                       /\ boot' = Exit(boot, "sources")
                  ELSE /\ source' = [source EXCEPT
                                        !.pc = "header", !.stdout = rest,
                                        !.result = [ok |-> TRUE, greeting |-> greeting.val],
                                        !.stdin = request_resources(
                                                     boot.sources[HardWiredSource].packs),
                                        !.flushed = TRUE]
                       /\ boot' = AfterStep("sources")
    /\ UNCHANGED <<packVars, placeVars, unitVars>>

\* source.next_file().unwrap_or_else(exit) in get_next_pack
UnwrapOrContinue(frame, r) ==
    IF r.ok THEN [frame EXCEPT !.verified = @ + 1] ELSE frame

\* source.next_file().unwrap_or_else(exit) in get_next_pack: an error ends
\* the process, a delivery goes on to Pack::verify_and_decrypt
UnwrapOrExit(frame, r) ==
    IF r.ok THEN [frame EXCEPT !.verified = @ + 1] ELSE Exit(frame, "next_file")

\* next_file returns the error `kind`
NextFileFails(kind) ==
    /\ source' = [source EXCEPT !.pc = "failed", !.result = Err(kind)]
    /\ boot' = UnwrapOrExit(boot, Err(kind))

\* next_file: the header line
NF_Header ==
    /\ boot.pc = "running" /\ source.pc = "header"
    /\ boot.verified < MaxDeliveries
    /\ ~ReadLine(source.stdout, source.eof).blocked
    /\ LET r == ReadLine(source.stdout, source.eof)
           line_parts == SplitWhitespace(r.line)
           length == ParseU32(line_parts[1])
       IN  IF ~r.ok THEN NextFileFails("Io")
           ELSE IF Len(line_parts) # 2 THEN NextFileFails("Source")
           ELSE IF ~length.ok THEN NextFileFails("Source")
           ELSE IF length.val > MAX_PACK_SIZE THEN NextFileFails("Source")
           ELSE /\ source' = [source EXCEPT !.pc = "body", !.stdout = r.rest,
                                            !.length = length.val,
                                            !.resource = FieldString(line_parts[2]),
                                            !.data = <<>>]
                /\ UNCHANGED boot
    /\ UNCHANGED <<packVars, placeVars, unitVars>>

\* next_file: read_exact of the body
NF_Body ==
    /\ boot.pc = "running" /\ source.pc = "body"
    /\ ~ReadExact(source.stdout, source.eof, source.length).blocked
    /\ LET r == ReadExact(source.stdout, source.eof, source.length)
       IN  IF ~r.ok THEN NextFileFails("Io")
           ELSE /\ source' = [source EXCEPT !.pc = "blank", !.stdout = r.rest,
                                            !.data = r.data]
                /\ UNCHANGED boot
    /\ UNCHANGED <<packVars, placeVars, unitVars>>

LookupAny(resources, resource) ==
    IF resource \in DOMAIN resources THEN Ok(resources[resource])
    ELSE Ok("A")

\* self.resources.get(resource)
Lookup(resources, resource) ==
    IF resource \in DOMAIN resources THEN Ok(resources[resource])
    ELSE Err("Source")

\* next_file: the end-of-record marker and the label of the resource;
\* get_next_pack passes the delivery on
NF_Marker ==
    /\ boot.pc = "running" /\ source.pc = "blank"
    /\ ~ReadLine(source.stdout, source.eof).blocked
    /\ LET r == ReadLine(source.stdout, source.eof)
           pack_label == Lookup(source.resources, source.resource)
       IN  IF ~r.ok THEN NextFileFails("Io")
           ELSE IF r.line # Text(<<"\n">>) THEN NextFileFails("Source")
           ELSE IF ~pack_label.ok THEN NextFileFails("Source")
           ELSE LET delivery == Ok([label |-> pack_label.val, bytes |-> source.data])
                IN  /\ source' = [source EXCEPT !.pc = "header", !.stdout = r.rest,
                                                !.length = 0, !.resource = <<>>,
                                                !.data = <<>>,
                                                !.result = delivery]
                    /\ boot' = UnwrapOrExit(boot, delivery)
    /\ UNCHANGED <<packVars, placeVars, unitVars>>

----------------------------------------------------------------------------
(* The fetcher, and the specification of the startup and source scenario *)

\* the read the supervisor is in cannot complete with what is in the pipe
ReadBlocked ==
    CASE source.pc \in {"greeting", "header", "blank"} ->
            ReadLine(source.stdout, source.eof).blocked
      [] source.pc = "body" ->
            ReadExact(source.stdout, source.eof, source.length).blocked
      [] OTHER -> FALSE

\* the fetcher writes to its stdout while the supervisor waits for it
F_Write ==
    /\ ReadBlocked
    /\ \E chunk \in (IF source.stdout # <<>> THEN ContinuationChunks
                     ELSE IF source.pc = "greeting" THEN GreetingChunks
                     ELSE DeliveryChunks) :
          /\ source.stdout # <<>> => Len(source.stdout) + Len(chunk) <= MaxPipe
          /\ source' = [source EXCEPT !.stdout = @ \o chunk]
    /\ UNCHANGED boot
    /\ UNCHANGED <<packVars, placeVars, unitVars>>

\* the fetcher closes its stdout, or ends
F_Close ==
    /\ ReadBlocked
    /\ source' = [source EXCEPT !.eof = TRUE]
    /\ UNCHANGED boot
    /\ UNCHANGED <<packVars, placeVars, unitVars>>

NextSource ==
    \/ M_LoadConfig
    \/ M_LoadKeyrings
    \/ M_ProcessFileConfig
    \/ M_SpawnSource
    \/ S_Greeting
    \/ NF_Header
    \/ NF_Body
    \/ NF_Marker
    \/ F_Write
    \/ F_Close

SpecSource == InitSource /\ [][NextSource]_vars

----------------------------------------------------------------------------
(* Claims about the source supervisor and the startup of the coordinator *)

\* the configuration of the source the supervisor was made for
SupervisedPacks == Range(boot.sources[boot.spawned[1]].packs)

\* the resource identifiers written to the fetcher's stdin
Requested == {source.stdin[i] : i \in 1..(Len(source.stdin) - 1)}

\* next_file returns to get_next_pack with a delivery
Returns == source.pc = "blank" /\ source'.pc = "header"

\* next_file returns to get_next_pack with an error
Fails == source.pc \in {"header", "body", "blank"} /\ source'.pc = "failed"

\* C14: next_file goes on to read a body only after a header line of exactly
\* two whitespace-separated fields whose first parses as a decimal length of
\* at most MAX_PACK_SIZE; it goes on to the end-of-record marker only with
\* exactly that many body bytes; it returns a delivery only if the next line
\* is a single newline and the second field is a requested resource, and
\* then the label is one configured for that resource and the bytes are the
\* body; an error hands nothing to the coordinator.
C14_NextFileContract ==
    [][/\ (source.pc # "body" /\ source'.pc = "body") =>
             /\ source.pc = "header"
             /\ LET line == ReadLine(source.stdout, source.eof).line
                     fields == SplitWhitespace(line)
                 IN  /\ Len(fields) = 2
                     /\ ParseU32(fields[1]).ok
                     /\ ParseU32(fields[1]).val <= MAX_PACK_SIZE
                     /\ source'.length = ParseU32(fields[1]).val
                     /\ source'.resource = FieldString(fields[2])
       /\ (source.pc # "blank" /\ source'.pc = "blank") =>
             /\ source.pc = "body"
             /\ TotalLen(source'.data) = source.length
             /\ source'.data = Take(source.stdout, source.length).data
       /\ (source.pc = "blank" /\ source'.pc = "header") =>
             /\ ReadLine(source.stdout, source.eof).line = Text(<<"\n">>)
             /\ source.resource \in Requested
             /\ \E entry \in SupervisedPacks :
                    /\ entry.resource = source.resource
                    /\ source'.result = Ok([label |-> entry.label, bytes |-> source.data])
             /\ boot'.verified = boot.verified + 1
       /\ boot'.verified # boot.verified => Returns
       /\ Fails => (~source'.result.ok /\ boot'.verified = boot.verified)
      ]_vars

\* a body of MAX_PACK_SIZE bytes has been delivered under a requested resource
C14_Witness ==
    /\ boot.verified >= 1
    /\ source.pc = "header"
    /\ source.result = Ok([label |-> "A", bytes |-> Run(MAX_PACK_SIZE, "x")])

\* the first line on the fetcher's stdout, as bytes, when read_greeting reads it
FirstLine == ReadLine(source.stdout, source.eof).line

\* the bytes of `line` begin with "OK "
BeginsWithOK(line) ==
    /\ Len(line) >= 3
    /\ line[1].c = "O" /\ line[2].c = "K" /\ line[3].c = " "

ValidUtf8(line) == \A i \in DOMAIN line : line[i].c # "<ff>"

\* read_greeting has read the first line
GreetingRead == source.pc = "greeting" /\ source'.pc # "greeting"

\* the resources of the supervised source, one per line, then a blank line
RequestLines ==
    LET packs == boot.sources[boot.spawned[1]].packs
    IN  [i \in 1..(Len(packs) + 1) |-> IF i <= Len(packs) THEN packs[i].resource ELSE <<>>]

\* the fetcher's stdin is written only by the step that has read a valid
\* greeting: every resource on its line, a blank line, flushed, left open
RequestOnlyAfterGreeting ==
    /\ (source'.stdin # source.stdin \/ source'.flushed # source.flushed) =>
          /\ GreetingRead
          /\ BeginsWithOK(FirstLine) /\ ValidUtf8(FirstLine)
          /\ source.stdin = <<>>
          /\ source'.stdin = RequestLines
          /\ source'.flushed /\ source'.stdin_open
    /\ (source.stdin_open /\ source.pc # "none") => source'.stdin_open

\* C15 as stated: whenever the first line does not start with "OK " (end of
\* file included) Source::new fails with a Source error, and the resources
\* are written to the fetcher's stdin only after a valid greeting.
C15_BadGreetingIsSourceError ==
    [][/\ (GreetingRead /\ ~BeginsWithOK(FirstLine)) =>
             (source'.pc = "failed" /\ source'.result = Err("Source"))
       /\ RequestOnlyAfterGreeting
      ]_vars

\* C15, amended: whenever the first line does not start with "OK " (end of
\* file included) Source::new fails, with a Source error when the line is
\* valid UTF-8 and with an Io error when it is not, and the coordinator exits;
\* the resources are written to the fetcher's stdin (one per line, a blank
\* line, a flush, the pipe left open) only after a valid greeting.
C15_BadGreetingFails ==
    [][/\ (GreetingRead /\ ~BeginsWithOK(FirstLine)) =>
             /\ source'.pc = "failed"
             /\ source'.result = IF ValidUtf8(FirstLine) THEN Err("Source") ELSE Err("Io")
             /\ source'.stdin = <<>> /\ ~source'.flushed
             /\ boot'.pc = "exited" /\ boot'.exit = ExitFailure
       /\ RequestOnlyAfterGreeting
      ]_vars

\* a fetcher that ended without a greeting has been refused with a Source
\* error and nothing written to it
C15_Witness ==
    /\ source.pc = "failed"
    /\ source.eof /\ source.stdout = <<>>
    /\ source.result = Err("Source")
    /\ source.stdin = <<>>
    /\ boot.failed = "sources"
    /\ boot.verified = 0

\* C16: any error returned by next_file, of the Source or of the Io class,
\* terminates the coordinator with exit code 1, and once it has terminated
\* nothing is read from the fetcher, verified or placed any more.
C16_NextFileErrorIsFatal ==
    /\ [][Fails => /\ source'.result \in {Err("Source"), Err("Io")}
                   /\ boot'.pc = "exited"
                   /\ boot'.exit = ExitFailure
                   /\ boot'.failed = "next_file"
                   /\ boot'.verified = boot.verified]_vars
    /\ [][boot.pc = "exited" =>
            /\ boot' = boot
            /\ source'.result = source.result /\ source'.pc = source.pc
            /\ placeVars' = placeVars]_vars
    /\ [](boot.pc = "exited" => ~ENABLED (NF_Header \/ NF_Body \/ NF_Marker))

\* the coordinator has ended on a next_file error after one delivery, with
\* bytes of the fetcher left unread in the pipe
C16_Witness ==
    /\ boot.pc = "exited" /\ boot.exit = ExitFailure /\ boot.failed = "next_file"
    /\ boot.verified = 1
    /\ source.stdout # <<>>

\* next_file has returned a Source error: the fetcher broke the protocol
ProtocolViolation ==
    /\ source.pc = "failed"
    /\ boot.failed # "sources"
    /\ source.result = Err("Source")

\* C17 as stated: after a Source-class error in steady state the coordinator
\* continues to process later deliveries.
C17_SourceErrorContinues == ProtocolViolation => boot.pc = "running"

\* C17, amended: a Source-class error in steady state terminates the
\* coordinator with exit code 1; the offending delivery is not handed to
\* verification and no later delivery is read.
C17_SourceErrorTerminates ==
    ProtocolViolation =>
        /\ boot.pc = "exited" /\ boot.exit = ExitFailure /\ boot.failed = "next_file"
        /\ ~ENABLED (NF_Header \/ NF_Body \/ NF_Marker)

\* an unsolicited resource, delivered after one good delivery with a correct
\* body and end-of-record marker, has ended the coordinator
C17_Witness ==
    /\ ProtocolViolation
    /\ boot.verified = 1
    /\ source.resource \notin DOMAIN source.resources
    /\ TotalLen(source.data) = source.length /\ source.length > 0

\* C19: once startup is over one source supervisor has been spawned for
\* every entry of the `sources` table, whatever its name, the resources of
\* the entry have been requested from it, and no table makes startup end in
\* a panic.
C19_EverySourceSpawned ==
    /\ boot.exit # PanicExit
    /\ boot.pc = "running" =>
          /\ Range(boot.spawned) = DOMAIN boot.sources
          /\ Len(boot.spawned) = Cardinality(DOMAIN boot.sources)
          /\ source.stdin = RequestLines

----------------------------------------------------------------------------
(* The loop of main over the deliveries of a source and the loop of         *)
(* process_pack over the files of a pack (main.rs).  A delivery is what     *)
(* next_file returns for one record of the fetcher's stdout; the placement  *)
(* of a file is one step here, place_file_if_updated being a call that      *)
(* returns before the next file is looked at.                               *)

MaxQueue == 2

\* the file lists of the payloads delivered
FileLists ==
    {<<>>, <<"/etc/hello">>, <<"/etc/hello", "/etc/motd">>, <<"/etc/motd", "/etc/hello">>,
     <<"/etc/passwd", "/etc/hello">>}

\* what a fetcher may deliver: a pack under a label, which verifies or not
Deliveries ==
    [label : PackNames, status : {"Ok", "Crypto"}, files : FileLists]

\* the records in the pipe, first written first, and main at get_next_pack
InitLoop ==
    /\ PackOff
    /\ PlaceOff
    /\ SourceOff
    /\ SizesOff /\ CodecOff /\ KeyfileOff /\ MoreOff
    /\ \E n \in 0..MaxQueue : \E queue \in [1..n -> Deliveries] :
          loop = [pc |-> "recv", delivered |-> queue, queue |-> queue, n |-> 0,
                  files |-> <<>>, label |-> "", i |-> 0, log |-> <<>>]

\* get_next_pack: next_file reads the record at the head of the pipe, and
\* Pack::verify_and_decrypt gives Some(pack) or None
L_GetNextPack ==
    /\ loop.pc = "recv"
    /\ loop.queue # <<>>
    /\ LET delivery == Head(loop.queue)
           option == VerifyWrapper(delivery.status)
       IN  loop' = [loop EXCEPT
                       !.queue = Tail(@),
                       !.n = @ + 1,
                       !.log = Append(@, [op |-> "read", n |-> loop.n + 1, k |-> 0,
                                          filename |-> ""]),
                       !.pc = MainLoop(option),
                       !.label = IF option = "Some" THEN delivery.label ELSE "",
                       !.files = IF option = "Some" THEN delivery.files ELSE <<>>,
                       !.i = IF option = "Some" THEN 1 ELSE 0]
    /\ UNCHANGED <<packVars, placeVars, sourceVars, sizes, codec, keyfile, ring, http, relay>>

FileAtFromEnd(files, i) == files[Len(files) + 1 - i]

\* for file in pack.files(): the files in the order of the Vec
FileAt(files, i) == files[i]

\* process_pack, one iteration: the file is placed, found identical, ignored
\* or has no target
L_ProcessFile ==
    /\ loop.pc = "route"
    /\ loop.i <= Len(loop.files)
    /\ LET filename == FileAt(loop.files, loop.i)
       IN  loop' = [loop EXCEPT
                       !.log = Append(@, [op |-> Route(process_file_config(HostFiles),
                                                       loop.label, filename),
                                          n |-> loop.n, k |-> loop.i,
                                          filename |-> filename]),
                       !.i = @ + 1]
    /\ UNCHANGED <<packVars, placeVars, sourceVars, sizes, codec, keyfile, ring, http, relay>>

\* process_pack returns and main's loop calls get_next_pack again
L_Return ==
    /\ loop.pc = "route"
    /\ loop.i > Len(loop.files)
    /\ loop' = [loop EXCEPT !.pc = "recv", !.files = <<>>, !.label = "", !.i = 0]
    /\ UNCHANGED <<packVars, placeVars, sourceVars, sizes, codec, keyfile, ring, http, relay>>

NextLoop ==
    \/ L_GetNextPack
    \/ L_ProcessFile
    \/ L_Return

SpecLoop == InitLoop /\ [][NextLoop]_vars

RECURSIVE InOrder(_, _)
\* what happens for the deliveries from the n-th on when each is read,
\* verified and routed completely, file by file in the order of its file
\* list, before the next is read
InOrder(deliveries, n) ==
    IF n > Len(deliveries) THEN <<>>
    ELSE LET d == deliveries[n]
             read == <<[n |-> n, k |-> 0, filename |-> ""]>>
             routed_files == [k \in DOMAIN d.files |->
                                 [n |-> n, k |-> k, filename |-> d.files[k]]]
         IN  read \o (IF d.status = "Ok" THEN routed_files ELSE <<>>)
                  \o InOrder(deliveries, n + 1)

\* the log without what process_pack did with each file
Happened == [e \in DOMAIN loop.log |->
                [n |-> loop.log[e].n, k |-> loop.log[e].k,
                 filename |-> loop.log[e].filename]]

\* C29: the packs of a source are read, verified and routed in the order the
\* fetcher delivered them, each completely before the next header is read,
\* and within a pack the files are routed in the order of the payload's
\* file list.
C29_DeliveryAndFileOrder ==
    /\ Len(Happened) <= Len(InOrder(loop.delivered, 1))
    /\ Happened = SubSeq(InOrder(loop.delivered, 1), 1, Len(Happened))
    /\ (loop.queue = <<>> /\ loop.pc = "recv") => Happened = InOrder(loop.delivered, 1)

\* two packs of two files each have been routed, the second pack's files in
\* the other order
C29_Witness ==
    /\ loop.queue = <<>> /\ loop.pc = "recv" /\ Len(loop.log) = 6
    /\ loop.delivered[1].files = <<"/etc/hello", "/etc/motd">>
    /\ loop.delivered[2].files = <<"/etc/motd", "/etc/hello">>
    /\ loop.log[2].op = "place" /\ loop.log[6].op = "ignored"

----------------------------------------------------------------------------
(* Byte lengths along Pack::encrypt_and_sign (placer-pack, pack.rs) and the *)
(* size checks of Pack::load and of the supervisor's next_file.  The        *)
(* payload and the envelope are length-delimited, tag-numbered encodings:   *)
(* a field is one tag byte, the length as a varint, and the bytes.          *)

MaxSizedFiles == 2

\* the AES-SIV tag that seal puts in front of the encrypted plaintext
SIV_TAG_SIZE == 16

MAGIC_SIZE == 16

\* a hyphenated UUID
UUID_STRING_SIZE == 36

\* a fingerprint KeyURI: the prefix, ';', 52 characters for the 32 bytes of
\* the digest and 6 for the checksum
FINGERPRINT_STRING_SIZE == 85

\* length of the varint of n, for the lengths that occur
VarintLen(n) ==
    IF n < 128 THEN 1
    ELSE IF n < 128 * 128 THEN 2
    ELSE IF n < 128 * 128 * 128 THEN 3
    ELSE 4

\* a length-delimited field of n bytes
FieldLen(n) == 1 + VarintLen(n) + n

\* a PackFile record: filename, content_type, modified_at, body (an empty
\* body is left out by the encoding)
PackFileLen(f) ==
    FieldLen(f.filename) + FieldLen(24) + FieldLen(f.modified_at)
        + (IF f.body = 0 THEN 0 ELSE FieldLen(f.body))

RECURSIVE PayloadLen(_)
\* Payload { files }.encode
PayloadLen(files) ==
    IF files = <<>> THEN 0
    ELSE FieldLen(PackFileLen(Head(files))) + PayloadLen(Tail(files))

\* Pack::serialize: the encoded payload, refused when longer than
\* MAX_PACK_SIZE
SerializeLen(files) ==
    IF PayloadLen(files) > MAX_PACK_SIZE THEN Err("Serialization")
    ELSE Ok(PayloadLen(files))

\* Encryptor::seal
SealLen(plaintext) == SIV_TAG_SIZE + plaintext

\* PACK_V0_MAGIC_STRING followed by PackProto.encode: uuid, date (a message
\* holding the TAI64N_SIZE bytes), the two fingerprints, signature, ciphertext
OutputLen(ciphertext) ==
    MAGIC_SIZE + FieldLen(UUID_STRING_SIZE) + FieldLen(FieldLen(TAI64N_SIZE))
        + FieldLen(FINGERPRINT_STRING_SIZE) + FieldLen(FINGERPRINT_STRING_SIZE)
        + FieldLen(SIGNATURE_SIZE) + FieldLen(ciphertext)

\* body lengths of the input files
BodyLens ==
    {0, 1, 100, 16000, MAX_PACK_SIZE \div 2, MAX_PACK_SIZE - 400,
     MAX_PACK_SIZE - 300, MAX_PACK_SIZE - 100, MAX_PACK_SIZE - 50, MAX_PACK_SIZE}

SizedFiles == [filename : {10}, modified_at : {14}, body : BodyLens]

InitSizes ==
    /\ PackOff
    /\ PlaceOff
    /\ SourceOff
    /\ LoopOff /\ CodecOff /\ KeyfileOff /\ MoreOff
    /\ \E n \in 0..MaxSizedFiles : \E files \in [1..n -> SizedFiles] :
          sizes = [pc |-> "serialize", files |-> files, plaintext |-> 0,
                   ciphertext |-> 0, ret |-> Err("none"),
                   load |-> "none", next_file |-> "none"]

\* encrypt_and_sign up to self.serialize()?
Z_Serialize ==
    /\ sizes.pc = "serialize"
    /\ LET plaintext == SerializeLen(sizes.files)
       IN  sizes' = IF plaintext.ok
                    THEN [sizes EXCEPT !.pc = "seal", !.plaintext = plaintext.val]
                    ELSE [sizes EXCEPT !.pc = "refused", !.ret = plaintext]
    /\ UNCHANGED <<packVars, placeVars, sourceVars, loop, codec, keyfile, ring, http, relay>>

\* encrypt_and_sign from encryptor.seal to Ok(output)
Z_SealAndEncode ==
    /\ sizes.pc = "seal"
    /\ sizes' = [sizes EXCEPT !.pc = "written",
                              !.ciphertext = SealLen(sizes.plaintext),
                              !.ret = Ok(OutputLen(SealLen(sizes.plaintext)))]
    /\ UNCHANGED <<packVars, placeVars, sourceVars, loop, codec, keyfile, ring, http, relay>>

\* Pack::load of the file the output was written to: the size check
Z_Load ==
    /\ sizes.pc = "written" /\ sizes.load = "none"
    /\ sizes' = [sizes EXCEPT !.load = IF sizes.ret.val > MAX_PACK_SIZE
                                       THEN "Serialization" ELSE "verify"]
    /\ UNCHANGED <<packVars, placeVars, sourceVars, loop, codec, keyfile, ring, http, relay>>

\* Source::next_file for a header with the length of the output
Z_NextFile ==
    /\ sizes.pc = "written" /\ sizes.next_file = "none"
    /\ sizes' = [sizes EXCEPT !.next_file = IF sizes.ret.val > MAX_PACK_SIZE
                                            THEN "Source" ELSE "read"]
    /\ UNCHANGED <<packVars, placeVars, sourceVars, loop, codec, keyfile, ring, http, relay>>

NextSizes ==
    \/ Z_Serialize
    \/ Z_SealAndEncode
    \/ Z_Load
    \/ Z_NextFile

SpecSizes == InitSizes /\ [][NextSizes]_vars

\* C21: every byte string returned by encrypt_and_sign is at most
\* MAX_PACK_SIZE bytes long and passes the size checks of Pack::load and of
\* next_file, and a file set that would make the pack longer is refused with
\* a Serialization error.
C21_OutputWithinMaxPackSize ==
    /\ sizes.ret.ok =>
          /\ sizes.ret.val <= MAX_PACK_SIZE
          /\ sizes.load # "Serialization"
          /\ sizes.next_file # "Source"
    /\ sizes.pc = "refused" => sizes.ret = Err("Serialization")

----------------------------------------------------------------------------
(* bech32k (placer-pack, keyuri/bech32k.rs).  A string is the sequence of   *)
(* its bytes.  The u32 accumulator of the base32 conversion is kept to its  *)
(* low 30 bits: the conversion reads none above the 13th.                   *)

MIN_LENGTH == 8

MAX_LENGTH == 90

\* "qpzry9x8gf2tvdw0s3jn54khce6mua7l"
CHARSET ==
    << 113, 112, 122, 114, 121, 57, 120, 56, 103, 102, 50, 116, 118, 100, 119, 48,
       115, 51, 106, 110, 53, 52, 107, 104, 99, 101, 54, 109, 117, 97, 55, 108 >>

\* CHARSET_INVERSE, for the bytes 0 to 127
CHARSET_INVERSE ==
    << -1, -1, -1, -1, -1, -1, -1, -1, -1, -1, -1, -1, -1, -1, -1, -1,
       -1, -1, -1, -1, -1, -1, -1, -1, -1, -1, -1, -1, -1, -1, -1, -1,
       -1, -1, -1, -1, -1, -1, -1, -1, -1, -1, -1, -1, -1, -1, -1, -1,
       15, -1, 10, 17, 21, 20, 26, 30, 7, 5, -1, -1, -1, -1, -1, -1,
       -1, 29, -1, 24, 13, 25, 9, 8, 23, -1, 18, 22, 31, 27, 19, -1,
       1, 0, 3, 16, 11, 28, 12, 14, 6, 4, 2, -1, -1, -1, -1, -1,
       -1, 29, -1, 24, 13, 25, 9, 8, 23, -1, 18, 22, 31, 27, 19, -1,
       1, 0, 3, 16, 11, 28, 12, 14, 6, 4, 2, -1, -1, -1, -1, -1 >>

GENERATOR_COEFFICIENTS == <<996825010, 642813549, 513874426, 1027748829, 705979059>>

\* ';'
SEPARATOR == 59

Pow2(n) == 2 ^ n

ShiftRight(x, n) == x \div Pow2(n)

LowBits(x, n) == x % Pow2(n)

\* x << n in the bits kept
ShiftLeft(x, n) == LowBits(x, 30 - n) * Pow2(n)

RECURSIVE BitXor(_, _)
BitXor(a, b) ==
    IF a = 0 THEN b
    ELSE IF b = 0 THEN a
    ELSE ((a + b) % 2) + 2 * BitXor(a \div 2, b \div 2)

RECURSIVE BitOr(_, _)
BitOr(a, b) ==
    IF a = 0 THEN b
    ELSE IF b = 0 THEN a
    ELSE (IF a % 2 = 1 \/ b % 2 = 1 THEN 1 ELSE 0) + 2 * BitOr(a \div 2, b \div 2)

Bech32kErr(kind) == [ok |-> FALSE, err |-> kind]

\* Error::CharInvalid { byte }
CharInvalid(byte) == [ok |-> FALSE, err |-> "CharInvalid", byte |-> byte]

\* one turn of the for loop of Base32Converter::convert
ConvertValue(mode, st, value) ==
    LET src == IF mode = "Encode" THEN 8 ELSE 5
        dst == IF mode = "Encode" THEN 5 ELSE 8
        acc1 == BitOr(ShiftLeft(st.acc, src), value)
        bits1 == st.bits + src
        \* while bits >= dst: one or two values pushed
        n == bits1 \div dst
        pushed == [k \in 1..n |-> LowBits(ShiftRight(acc1, bits1 - k * dst), dst)]
    IN  IF ShiftRight(value, src) # 0 THEN Bech32kErr("DataInvalid")
        ELSE [ok |-> TRUE, acc |-> acc1, bits |-> bits1 - n * dst,
              out |-> st.out \o pushed]

RECURSIVE ConvertOver(_, _, _, _, _)
\* the for loop over data[lo..hi] entered in state st, run as its first half
\* and then its second half; an error ends it
ConvertOver(mode, data, lo, hi, st) ==
    IF ~st.ok \/ lo > hi THEN st
    ELSE IF lo = hi THEN ConvertValue(mode, st, data[lo])
    ELSE LET mid == (lo + hi) \div 2
         IN  ConvertOver(mode, data, mid + 1, hi, ConvertOver(mode, data, lo, mid, st))

\* Base32Converter::convert
Convert(mode, data) ==
    LET src == IF mode = "Encode" THEN 8 ELSE 5
        dst == IF mode = "Encode" THEN 5 ELSE 8
        st == ConvertOver(mode, data, 1, Len(data),
                          [ok |-> TRUE, acc |-> 0, bits |-> 0, out |-> <<>>])
        last == LowBits(ShiftLeft(st.acc, dst - st.bits), dst)
    IN  IF ~st.ok THEN st
        ELSE IF mode = "Encode"
        THEN Ok(IF st.bits > 0 THEN Append(st.out, last) ELSE st.out)
        ELSE IF st.bits >= src \/ last # 0 THEN Bech32kErr("PaddingInvalid")
        ELSE Ok(st.out)

\* Checksum::expand_prefix
expand_prefix(prefix) ==
    [i \in DOMAIN prefix |-> ShiftRight(prefix[i], 5)] \o <<0>>
        \o [i \in DOMAIN prefix |-> LowBits(prefix[i], 5)]

RECURSIVE XorCoefficients(_, _, _)
\* result ^= coeff for every i with bit i of b set
XorCoefficients(r, b, i) ==
    IF i > Len(GENERATOR_COEFFICIENTS) THEN r
    ELSE XorCoefficients(IF ShiftRight(b, i - 1) % 2 = 1
                         THEN BitXor(r, GENERATOR_COEFFICIENTS[i]) ELSE r,
                         b, i + 1)

\* one turn of the for loop of Checksum::polymod
PolymodValue(r, value) ==
    XorCoefficients(BitXor(LowBits(r, 25) * Pow2(5), value), ShiftRight(r, 25), 1)

RECURSIVE PolymodOver(_, _, _, _)
\* the for loop over values[lo..hi] entered with result r (a u32, evaluated
\* on entry), run as its first half and then its second half
PolymodOver(values, lo, hi, r) ==
    IF lo > hi \/ r \notin Nat THEN r
    ELSE IF lo = hi THEN PolymodValue(r, values[lo])
    ELSE LET mid == (lo + hi) \div 2
         IN  PolymodOver(values, mid + 1, hi, PolymodOver(values, lo, mid, r))

\* Checksum::polymod
polymod(values) == PolymodOver(values, 1, Len(values), 1)

ChecksumZero(prefix, data) == <<0, 0, 0, 0, 0, 0>>

\* Checksum::new
ChecksumNew(prefix, data) ==
    LET pm == BitXor(polymod(expand_prefix(prefix) \o data \o <<0, 0, 0, 0, 0, 0>>), 1)
    IN  [p \in 1..6 |-> LowBits(ShiftRight(pm, 5 * (6 - p)), 5)]

\* Checksum::verify
ChecksumVerify(prefix, data) == polymod(expand_prefix(prefix) \o data) = 1

\* bech32k::encode
encode(prefix, data) ==
    LET base32_data == Convert("Encode", data).val
        checksum == ChecksumNew(prefix, base32_data)
        data_with_checksum == [i \in 1..(Len(base32_data) + 6) |->
                                  IF i <= Len(base32_data)
                                  THEN CHARSET[base32_data[i] + 1]
                                  ELSE CHARSET[checksum[i - Len(base32_data)] + 1]]
    IN  prefix \o <<SEPARATOR>> \o data_with_checksum

IsUpper(byte) == byte >= 65 /\ byte <= 90

IsLower(byte) == byte >= 97 /\ byte <= 122

IsDigit(byte) == byte >= 48 /\ byte <= 57

HasUpperIgnored(bytes) == FALSE

\* has_upper
HasUpper(bytes) == \E i \in DOMAIN bytes : IsUpper(bytes[i])

HasLowerIgnored(bytes) == FALSE

\* has_lower
HasLower(bytes) == \E i \in DOMAIN bytes : IsLower(bytes[i])

\* byte += b'a' - b'A' for an upper-case letter
LowerCased(bytes) == [i \in DOMAIN bytes |-> IF IsUpper(bytes[i]) THEN bytes[i] + 32 ELSE bytes[i]]

DataCharNotAlphanumeric(byte) == ~(IsDigit(byte) \/ IsUpper(byte) \/ IsLower(byte))

\* the characters of the data region that decode refuses: anything but
\* letters and digits, and '1', 'B', 'I', 'O', 'b', 'i', 'o'
DataCharInvalid(byte) ==
    \/ ~(IsDigit(byte) \/ IsUpper(byte) \/ IsLower(byte))
    \/ byte \in {49, 66, 73, 79, 98, 105, 111}

\* bech32k::decode
decode(encoded) ==
    LET len == Len(encoded)
        found == {i \in DOMAIN encoded : encoded[i] = SEPARATOR}
        at == CHOOSE i \in found : \A j \in found : i <= j
        prefix == SubSeq(encoded, 1, at - 1)
        data == SubSeq(encoded, at + 1, len)
        prefix_bytes == LowerCased(prefix)
        data_bytes == [i \in DOMAIN data |-> CHARSET_INVERSE[LowerCased(data)[i] + 1] % 256]
        \* the bytes at which the two for loops return
        bad_prefix == {i \in DOMAIN prefix : prefix[i] < 33 \/ prefix[i] > 126}
        bad_data == {i \in DOMAIN data : DataCharInvalid(data[i])}
    IN  IF found = {} THEN Bech32kErr("SeparatorMissing")
        ELSE IF len < MIN_LENGTH \/ len > MAX_LENGTH THEN Bech32kErr("LengthInvalid")
        ELSE IF prefix = <<>> THEN Bech32kErr("LengthInvalid")
        ELSE IF Len(data) < 6 THEN Bech32kErr("LengthInvalid")
        ELSE IF bad_prefix # {}
             THEN CharInvalid(prefix[CHOOSE i \in bad_prefix : \A j \in bad_prefix : i <= j])
        ELSE IF bad_data # {}
             THEN CharInvalid(data[CHOOSE i \in bad_data : \A j \in bad_data : i <= j])
        ELSE IF HasLower(encoded) /\ HasUpper(encoded) THEN Bech32kErr("CaseInvalid")
        ELSE IF ~ChecksumVerify(prefix_bytes, data_bytes) THEN Bech32kErr("ChecksumInvalid")
        ELSE LET converted == Convert("Decode", SubSeq(data_bytes, 1, Len(data_bytes) - 6))
             IN  IF ~converted.ok THEN converted
                 ELSE Ok([prefix |-> prefix_bytes, data |-> converted.val])

----------------------------------------------------------------------------
(* Inputs and steps of the bech32k scenario: a prefix and data are encoded, *)
(* the string is rewritten in another letter case or cut, and decoded.      *)

MaxDataBytes == 2

\* "example.prefix" and [0, 255, 1, 2, 3, 42, 101], the example of the tests
EXAMPLE_PREFIX == <<101, 120, 97, 109, 112, 108, 101, 46, 112, 114, 101, 102, 105, 120>>

EXAMPLE_DATA == <<0, 255, 1, 2, 3, 42, 101>>

\* "example.prefix;qrlszqsr9fjsjhjw53"
EXAMPLE_ENCODED == <<101, 120, 97, 109, 112, 108, 101, 46, 112, 114, 101, 102, 105, 120, 59, 113, 114, 108, 115, 122, 113, 115, 114, 57, 102, 106, 115, 106, 104, 106, 119, 53, 51>>

\* "a", "example.prefix", "k:9", "a b", "~{", "9."
Prefixes == {<<97>>, EXAMPLE_PREFIX, <<107, 58, 57>>, <<97, 32, 98>>, <<126, 123>>, <<57, 46>>}

Zeros(n) == [i \in 1..n |-> 0]

\* the data encoded: short byte strings, the example, and the lengths that
\* take "example.prefix" to 90 characters and beyond
DataInputs ==
    UNION {[1..n -> {0, 255}] : n \in 0..MaxDataBytes}
        \cup {EXAMPLE_DATA, Zeros(43), Zeros(44)}

\* how the encoded string is rewritten before it is decoded
CaseForms == {"lower", "upper", "capitalised", "word_of_prefix", "first_of_data", "cut"}

UpperCased(bytes) == [i \in DOMAIN bytes |-> IF IsLower(bytes[i]) THEN bytes[i] - 32 ELSE bytes[i]]

\* every letter of the prefix that begins a word in upper case, the data
\* region in upper case
Capitalised(bytes) ==
    LET at == CHOOSE i \in DOMAIN bytes : bytes[i] = SEPARATOR
                                          /\ \A j \in 1..(i - 1) : bytes[j] # SEPARATOR
    IN  [i \in DOMAIN bytes |->
            IF i > at \/ i = 1 \/ ~(IsLower(bytes[i - 1]) \/ IsUpper(bytes[i - 1]))
            THEN UpperCased(bytes)[i] ELSE bytes[i]]

\* the letter at a position in upper case
UpperAt(bytes, at) == [bytes EXCEPT ![at] = UpperCased(bytes)[at]]

Recase(form, bytes) ==
    LET sep == CHOOSE i \in DOMAIN bytes : bytes[i] = SEPARATOR
                                           /\ \A j \in 1..(i - 1) : bytes[j] # SEPARATOR
        letters == {i \in (sep + 1)..Len(bytes) : IsLower(bytes[i])}
        words == {i \in 1..(sep - 1) : IsLower(bytes[i])
                                       /\ (i = 1 \/ ~IsLower(bytes[i - 1]))}
    IN  CASE form = "lower" -> bytes
          [] form = "upper" -> UpperCased(bytes)
          [] form = "capitalised" -> Capitalised(bytes)
          [] form = "word_of_prefix" ->
                IF words = {} THEN bytes
                ELSE UpperAt(bytes, CHOOSE i \in words : \A j \in words : i >= j)
          [] form = "first_of_data" ->
                IF letters = {} THEN bytes
                ELSE UpperAt(bytes, CHOOSE i \in letters : \A j \in letters : i <= j)
          \* "cut": five characters of data left, the first letter in upper case
          [] OTHER -> UpperAt(SubSeq(bytes, 1, sep + 5), 1)

InitCodec ==
    /\ PackOff
    /\ PlaceOff
    /\ SourceOff
    /\ LoopOff /\ SizesOff /\ KeyfileOff /\ MoreOff
    /\ \E prefix \in Prefixes, data \in DataInputs :
          codec = [pc |-> "encode", prefix |-> prefix, data |-> data,
                   encoded |-> <<>>, form |-> "none", text |-> <<>>,
                   ret |-> Bech32kErr("none")]

K_Encode ==
    /\ codec.pc = "encode"
    /\ codec' = [codec EXCEPT !.pc = "encoded",
                              !.encoded = encode(codec.prefix, codec.data)]
    /\ UNCHANGED <<packVars, placeVars, sourceVars, loop, sizes, keyfile, ring, http, relay>>

\* the string reaches the decoder in one of the forms
K_Recase ==
    /\ codec.pc = "encoded"
    /\ \E form \in CaseForms :
          codec' = [codec EXCEPT !.pc = "decode", !.form = form,
                                 !.text = Recase(form, codec.encoded)]
    /\ UNCHANGED <<packVars, placeVars, sourceVars, loop, sizes, keyfile, ring, http, relay>>

\* how the encoded string is damaged before it is decoded
Damages == {"no_separator", "no_prefix", "five_symbols", "checksum"}

\* the symbol that stands for another value than the symbol given
OtherSymbol(byte) == IF byte = CHARSET[1] THEN CHARSET[2] ELSE CHARSET[1]

Damage(form, bytes) ==
    LET sep == CHOOSE i \in DOMAIN bytes : bytes[i] = SEPARATOR
                                           /\ \A j \in 1..(i - 1) : bytes[j] # SEPARATOR
    IN  CASE form = "no_separator" -> SubSeq(bytes, 1, sep - 1) \o SubSeq(bytes, sep + 1, Len(bytes))
          [] form = "no_prefix" -> SubSeq(bytes, sep, Len(bytes))
          [] form = "five_symbols" -> SubSeq(bytes, 1, sep + 5)
          \* "checksum": the last symbol is another one
          [] OTHER -> [bytes EXCEPT ![Len(bytes)] = OtherSymbol(bytes[Len(bytes)])]

\* the string reaches the decoder damaged
K_Damage ==
    /\ codec.pc = "encoded"
    /\ \E form \in Damages :
          codec' = [codec EXCEPT !.pc = "decode", !.form = form,
                                 !.text = Damage(form, codec.encoded)]
    /\ UNCHANGED <<packVars, placeVars, sourceVars, loop, sizes, keyfile, ring, http, relay>>

\* '1', 'b', 'i', 'o', 'B', 'I', 'O', and '-', ';', ' ', 0xc8
ForeignBytes == {49, 98, 105, 111, 66, 73, 79, 45, 59, 32, 200}

\* a character of the data region, the first or the last, is one that is
\* not of the alphabet
K_Foreign ==
    /\ codec.pc = "encoded"
    /\ \E byte \in ForeignBytes, at \in {Len(codec.prefix) + 2, Len(codec.encoded)} :
          codec' = [codec EXCEPT !.pc = "decode", !.form = "foreign",
                                 !.text = [codec.encoded EXCEPT ![at] = byte]]
    /\ UNCHANGED <<packVars, placeVars, sourceVars, loop, sizes, keyfile, ring, http, relay>>

\* symbols of the data region that are not the base32 form of whole bytes
LooseSymbols == UNION {[1..n -> {0, 1, 16}] : n \in 1..3}

\* a string is made of a prefix, any symbols and their checksum, without
\* Base32Converter
K_Symbols ==
    /\ codec.pc = "encode"
    /\ codec.data = <<>>
    /\ \E symbols \in LooseSymbols :
          LET text == codec.prefix \o <<SEPARATOR>>
                        \o [i \in 1..(Len(symbols) + 6) |->
                              CHARSET[(symbols \o ChecksumNew(codec.prefix, symbols))[i] + 1]]
          IN  codec' = [codec EXCEPT !.pc = "decode", !.form = "symbols",
                                     !.encoded = text, !.text = text]
    /\ UNCHANGED <<packVars, placeVars, sourceVars, loop, sizes, keyfile, ring, http, relay>>

K_Decode ==
    /\ codec.pc = "decode"
    /\ codec' = [codec EXCEPT !.pc = "done", !.ret = decode(codec.text)]
    /\ UNCHANGED <<packVars, placeVars, sourceVars, loop, sizes, keyfile, ring, http, relay>>

NextCodec ==
    \/ K_Encode
    \/ K_Recase
    \/ K_Damage
    \/ K_Foreign
    \/ K_Symbols
    \/ K_Decode

SpecCodec == InitCodec /\ [][NextCodec]_vars

\* the literal example of the tests encodes as the tests say
ExampleEncodes == encode(EXAMPLE_PREFIX, EXAMPLE_DATA) = EXAMPLE_ENCODED

----------------------------------------------------------------------------
(* Claims about bech32k                                                     *)

Decoded == codec.pc = "done"

\* the conditions on the prefix: not empty, no upper-case letter, no ';',
\* every byte between lowest and '~'
PrefixWithin(prefix, lowest) ==
    /\ prefix # <<>>
    /\ \A i \in DOMAIN prefix :
          /\ prefix[i] >= lowest /\ prefix[i] <= 126
          /\ ~IsUpper(prefix[i])
          /\ prefix[i] # SEPARATOR

LengthAccepted(bytes) == Len(bytes) >= MIN_LENGTH /\ Len(bytes) <= MAX_LENGTH

RoundTrips == codec.ret = Ok([prefix |-> codec.prefix, data |-> codec.data])

\* C22 as stated: for every non-empty lower-case printable-ASCII prefix
\* (bytes 32..=126, the space included) without ';' and every data for which
\* the encoded string has a length in 8..=90, decode(encode(prefix, data)) is
\* Ok((prefix, data)).
C22_PrintablePrefixRoundTrips ==
    (Decoded /\ codec.form = "lower"
        /\ PrefixWithin(codec.prefix, 32) /\ LengthAccepted(codec.encoded))
    => RoundTrips

\* C22: for every non-empty prefix of bytes 33..=126 (printable ASCII without
\* the space) with no upper-case letter and no ';', and every data for which
\* the encoded string has a length in 8..=90, decode(encode(prefix, data)) is
\* Ok((prefix, data)); a prefix that holds a space is refused with CharInvalid.
C22_RoundTrip ==
    (Decoded /\ codec.form = "lower" /\ LengthAccepted(codec.encoded))
    => /\ PrefixWithin(codec.prefix, 33) => RoundTrips
       /\ (PrefixWithin(codec.prefix, 32) /\ ~PrefixWithin(codec.prefix, 33))
          => codec.ret = CharInvalid(32)

\* the longest string accepted came back as it went in
C22_Witness ==
    /\ Decoded /\ codec.form = "lower"
    /\ Len(codec.text) = MAX_LENGTH
    /\ codec.prefix = EXAMPLE_PREFIX
    /\ RoundTrips

\* the characters decode accepts: 33..=126 before the first ';', the letters
\* and digits of the alphabet in either case after it
PermittedOnly(bytes) ==
    \E at \in DOMAIN bytes :
        /\ bytes[at] = SEPARATOR
        /\ \A i \in 1..(at - 1) : bytes[i] # SEPARATOR /\ bytes[i] >= 33 /\ bytes[i] <= 126
        /\ \A i \in (at + 1)..Len(bytes) : ~DataCharInvalid(bytes[i])

UpperLetters(bytes) == {i \in DOMAIN bytes : bytes[i] \in 65..90}

LowerLetters(bytes) == {i \in DOMAIN bytes : bytes[i] \in 97..122}

MixedCase(bytes) == UpperLetters(bytes) # {} /\ LowerLetters(bytes) # {}

\* a prefix and at least the six characters of the checksum around the
\* first ';'
PartsLongEnough(bytes) ==
    \E at \in DOMAIN bytes :
        /\ bytes[at] = SEPARATOR
        /\ \A i \in 1..(at - 1) : bytes[i] # SEPARATOR
        /\ at > 1
        /\ Len(bytes) - at >= 6

\* the all-upper-case form of a valid all-lower-case string decodes to the
\* same payload
UpperFormDecodesAlike ==
    (Decoded /\ codec.form = "upper" /\ decode(codec.encoded).ok)
    => codec.ret = decode(codec.encoded)

\* C23 as stated: the all-upper-case form of every valid all-lower-case
\* string decodes to the same payload, and every input that uses only
\* permitted characters and holds both an upper-case and a lower-case letter
\* is rejected with CaseInvalid.
C23_MixedCaseAlwaysCaseInvalid ==
    /\ UpperFormDecodesAlike
    /\ (Decoded /\ PermittedOnly(codec.text) /\ MixedCase(codec.text))
       => codec.ret = Bech32kErr("CaseInvalid")

\* C23: the all-upper-case form of every valid all-lower-case string decodes
\* to the same payload; every input of 8..=90 characters with a non-empty
\* prefix and at least six characters after the separator that uses only
\* permitted characters and holds both an upper-case and a lower-case letter
\* is rejected with CaseInvalid; a mixed-case input of another length is
\* rejected with LengthInvalid.
C23_CaseRule ==
    /\ UpperFormDecodesAlike
    /\ (Decoded /\ PermittedOnly(codec.text) /\ MixedCase(codec.text))
       => codec.ret = IF LengthAccepted(codec.text) /\ PartsLongEnough(codec.text)
                      THEN Bech32kErr("CaseInvalid")
                      ELSE Bech32kErr("LengthInvalid")

\* "example.Prefix;qrlszqsr9fjsjhjw53" was refused for its case, with a
\* checksum that would have been accepted
C23_Witness ==
    /\ Decoded
    /\ codec.text = <<101, 120, 97, 109, 112, 108, 101, 46, 80, 114, 101, 102, 105, 120, 59, 113, 114, 108, 115, 122, 113, 115, 114, 57, 102, 106, 115, 106, 104, 106, 119, 53, 51>>
    /\ codec.ret = Bech32kErr("CaseInvalid")
    /\ decode(codec.encoded).ok

\* "Example.Prefix;QRLSZQSR9FJSJHJW53"
EXAMPLE_CAPITALISED == <<69, 120, 97, 109, 112, 108, 101, 46, 80, 114, 101, 102, 105, 120, 59, 81, 82, 76, 83, 90, 81, 83, 82, 57, 70, 74, 83, 74, 72, 74, 87, 53, 51>>

\* C24 as stated: a string whose prefix is written with capitalised words
\* and whose data region is all upper-case, such as
\* "Example.Prefix;QRLSZQSR9FJSJHJW53", decodes to the bytes of
\* "example.prefix;qrlszqsr9fjsjhjw53".
C24_CapitalisedDecodes ==
    (Decoded /\ codec.text = EXAMPLE_CAPITALISED)
    => codec.ret = decode(EXAMPLE_ENCODED)

\* C24: a string whose prefix is written with capitalised words and whose
\* data region is all upper-case is refused with CaseInvalid when a lower-case
\* letter is left in its prefix, as in "Example.Prefix;QRLSZQSR9FJSJHJW53";
\* it decodes to the bytes of the lower-case string when no lower-case letter
\* is left.
C24_CapitalisedIsMixedCase ==
    (Decoded /\ codec.form = "capitalised" /\ decode(codec.encoded).ok)
    => codec.ret = IF LowerLetters(codec.text) # {}
                   THEN Bech32kErr("CaseInvalid")
                   ELSE decode(codec.encoded)

C24_Witness ==
    /\ Decoded /\ codec.form = "capitalised"
    /\ codec.text = EXAMPLE_CAPITALISED
    /\ codec.encoded = EXAMPLE_ENCODED
    /\ decode(EXAMPLE_ENCODED) = Ok([prefix |-> EXAMPLE_PREFIX, data |-> EXAMPLE_DATA])
    /\ codec.ret = Bech32kErr("CaseInvalid")

\* a symbol of the 32-symbol alphabet, or the upper-case form of one
OfAlphabet(byte) ==
    \E i \in DOMAIN CHARSET :
        \/ byte = CHARSET[i]
        \/ CHARSET[i] \in 97..122 /\ byte = CHARSET[i] - 32

\* the value a symbol stands for
SymbolValue(byte) ==
    CHOOSE v \in 0..31 : CHARSET[v + 1] = (IF byte \in 65..90 THEN byte + 32 ELSE byte)

\* the residue of the checksum of a string whose characters are permitted
Residue(bytes, at) ==
    polymod(expand_prefix([i \in 1..(at - 1) |->
                              IF bytes[i] \in 65..90 THEN bytes[i] + 32 ELSE bytes[i]])
            \o [i \in 1..(Len(bytes) - at) |-> SymbolValue(bytes[at + i])])

\* the bits left of the symbols before the checksum when whole bytes are
\* taken: five or more of them, or a bit of them set
PaddingWrong(bytes, at) ==
    LET count == Len(bytes) - at - 6
        left == (5 * count) % 8
    IN  \/ left >= 5
        \/ left > 0 /\ SymbolValue(bytes[at + count]) % (2 ^ left) # 0

----------------------------------------------------------------------------
(* Claims about the signing keyrings, checked under SpecPack                *)

\* two labels of the table carry the same KeyURI
DuplicateKeyUri(keys) == \E l, m \in DOMAIN keys : l # m /\ keys[l] = keys[m]

\* the producer has loaded its keyring and sealed a pack with it
ProducerKeyringLoaded == stage \notin {"create", "seal"}

\* C25: loading a keyring, producer or consumer, in which two signing labels
\* carry identical KeyURIs fails with InvalidKey, and no keyring is
\* constructed that holds the same signing key under two labels: the producer
\* never seals with a keyring loaded from such a table, and the consumer never
\* holds a keyring loaded from one.
C25_DuplicateSigningKeyRefused ==
    /\ ProducerKeyringLoaded => ~DuplicateKeyUri(producer.signing)
    /\ consumer.ok
       => ~DuplicateKeyUri(ExportVerifyKeys(ProducerLoad(producer).val).signing)
    /\ (stage = "nokeyring"
          /\ DuplicateKeyUri(ExportVerifyKeys(ProducerLoad(producer).val).signing))
       => consumer = Err("InvalidKey")

----------------------------------------------------------------------------
(* Keyring files: placer-pack writes them (keygen, export) and reads them,  *)
(* the coordinator reads them.  A file is its permission bits and what it   *)
(* holds; the process is the owner of the file, or root.                    *)

\* 0o600
REQUIRED_FILE_PERMISSIONS == 384

\* 0o100_000, the file type bits of a regular file in st_mode
S_IFREG == 32768

\* 0o000, 0o400, 0o600, 0o640, 0o644, 0o666, 0o700
FileModes == {0, 256, 384, 416, 420, 438, 448}

\* 0o000, 0o022, 0o077, 0o277
Umasks == {0, 18, 63, 191}

AbsentFile == [exists |-> FALSE, mode |-> 0, holds |-> "nothing"]

KeyFiles ==
    {AbsentFile} \cup [exists : {TRUE}, mode : FileModes, holds : {"verify keys", "other"}]

RECURSIVE BitAnd(_, _)
BitAnd(a, b) ==
    IF a = 0 \/ b = 0 THEN 0
    ELSE (IF a % 2 = 1 /\ b % 2 = 1 THEN 1 ELSE 0) + 2 * BitAnd(a \div 2, b \div 2)

\* what the owner's bits (0o400 to read, 0o200 to write), or being root,
\* allow
MayRead(file, root) == root \/ BitAnd(file.mode, 256) # 0

MayWrite(file, root) == root \/ BitAnd(file.mode, 128) # 0

\* OpenOptions::new().create(true).write(true).truncate(true).mode(mode).open:
\* a missing file is created with mode & ~umask, an existing file is cut to
\* length 0 and keeps its permission bits
OpenForWriting(file, mode, umask, root) ==
    IF ~file.exists
    THEN Ok([exists |-> TRUE, mode |-> BitAnd(mode, 511 - umask), holds |-> "nothing"])
    ELSE IF MayWrite(file, root)
    THEN Ok([file EXCEPT !.holds = "nothing"])
    ELSE Err("Io")

\* the writes that follow the open: all of them done, or one of them failed
WriteAll(opened, what, written) ==
    IF ~opened.ok THEN [ret |-> opened, file |-> <<>>]
    ELSE IF written THEN [ret |-> Ok("unit"), file |-> [opened.val EXCEPT !.holds = what]]
    ELSE [ret |-> Err("Io"), file |-> [opened.val EXCEPT !.holds = "part"]]

\* Config::save of placer-pack (keygen)
ConfigSave(file, umask, root, written) ==
    WriteAll(OpenForWriting(file, REQUIRED_FILE_PERMISSIONS, umask, root),
             "secret keys", written)

\* Keyrings::export_verify_keys
export_verify_keys(file, umask, root, written) ==
    WriteAll(OpenForWriting(file, REQUIRED_FILE_PERMISSIONS, umask, root),
             "verify keys", written)

\* File::open for reading
OpenForReading(file, root) ==
    IF file.exists /\ MayRead(file, root) THEN Ok(file) ELSE Err("Io")

\* toml::from_str into the two tables
FromToml(holds) ==
    IF holds \in {"secret keys", "verify keys"} THEN Ok(holds) ELSE Err("Config")

\* Config::load of placer-pack (the producer)
ConfigLoad(file, root) ==
    LET opened == OpenForReading(file, root)
    IN  IF ~opened.ok THEN opened ELSE FromToml(opened.val.holds)

\* permissions.mode() != (0o100_000 | REQUIRED_FILE_PERMISSIONS)
BadPermissions(opened) == S_IFREG + opened.mode # S_IFREG + REQUIRED_FILE_PERMISSIONS

\* KeyringConfig::load of placer (the consumer)
KeyringConfigLoad(file, root) ==
    LET opened == OpenForReading(file, root)
    IN  IF ~opened.ok THEN opened
        ELSE IF BadPermissions(opened.val) THEN Err("Config")
        ELSE FromToml(opened.val.holds)

InitKeyfile ==
    /\ PackOff
    /\ PlaceOff
    /\ SourceOff
    /\ LoopOff /\ SizesOff /\ CodecOff /\ MoreOff
    /\ \E file \in KeyFiles, umask \in Umasks, root \in BOOLEAN :
          keyfile = [pc |-> "start", file |-> file, umask |-> umask,
                     root |-> root, op |-> "none", ret |-> Err("none")]

\* placer-pack keygen writes the file
F_Keygen ==
    /\ keyfile.pc = "start"
    /\ \E written \in BOOLEAN :
          LET r == ConfigSave(keyfile.file, keyfile.umask, keyfile.root, written)
          IN  keyfile' = [keyfile EXCEPT !.pc = "written", !.op = "keygen", !.ret = r.ret,
                                         !.file = IF r.file = <<>> THEN @ ELSE r.file]
    /\ UNCHANGED <<packVars, placeVars, sourceVars, loop, sizes, codec, ring, http, relay>>

\* placer-pack export writes the file
F_Export ==
    /\ keyfile.pc = "start"
    /\ \E written \in BOOLEAN :
          LET r == export_verify_keys(keyfile.file, keyfile.umask, keyfile.root, written)
          IN  keyfile' = [keyfile EXCEPT !.pc = "written", !.op = "export", !.ret = r.ret,
                                         !.file = IF r.file = <<>> THEN @ ELSE r.file]
    /\ UNCHANGED <<packVars, placeVars, sourceVars, loop, sizes, codec, ring, http, relay>>

\* placer-pack loads the file that is there
F_ProducerLoad ==
    /\ keyfile.pc \in {"start", "written"}
    /\ keyfile' = [keyfile EXCEPT !.pc = "loaded", !.op = "producer load",
                                  !.ret = ConfigLoad(keyfile.file, keyfile.root)]
    /\ UNCHANGED <<packVars, placeVars, sourceVars, loop, sizes, codec, ring, http, relay>>

\* placer loads the file that is there
F_ConsumerLoad ==
    /\ keyfile.pc \in {"start", "written"}
    /\ keyfile' = [keyfile EXCEPT !.pc = "loaded", !.op = "consumer load",
                                  !.ret = KeyringConfigLoad(keyfile.file, keyfile.root)]
    /\ UNCHANGED <<packVars, placeVars, sourceVars, loop, sizes, codec, ring, http, relay>>

NextKeyfile ==
    \/ F_Keygen
    \/ F_Export
    \/ F_ProducerLoad
    \/ F_ConsumerLoad

SpecKeyfile == InitKeyfile /\ [][NextKeyfile]_vars

----------------------------------------------------------------------------
(* Claims about keyring files, checked under SpecKeyfile                    *)

\* C26: after export_verify_keys, and after the keygen save, returns Ok, the
\* output file has permissions exactly 0600, whether the file was newly
\* created or already existed with other permissions and was overwritten.
C26_WrittenFileIs0600 ==
    (keyfile.pc = "written" /\ keyfile.ret.ok)
    => keyfile.file.exists /\ keyfile.file.mode = REQUIRED_FILE_PERMISSIONS

\* C27: loading a keyring file whose permissions are not exactly 0600 fails
\* with a Config error and loads no key, for the producer keyring loader as
\* well as for the consumer keyring loader.
C27_WrongModeIsConfigError ==
    (keyfile.pc = "loaded" /\ keyfile.file.exists
        /\ keyfile.file.mode # REQUIRED_FILE_PERMISSIONS)
    => keyfile.ret = Err("Config")

----------------------------------------------------------------------------
(* Further claims about the placement pipeline, checked under SpecPlace     *)

\* process_pack is between two files of a pack, and the file before was for
\* a target of the pack and left the target with its body
OccurrencePlaced ==
    /\ co = "route"
    /\ routed.outcome = "place"
    /\ cur.target = PathBufFrom(routed.filename)
    /\ cur.ret \in {"Ok", "identical"}

\* C31: when a pack contains several files with the same path and that path
\* matches a target, the first such file is authoritative: once an occurrence
\* has been placed, a later occurrence in the same pack is not placed (the
\* target being readable for the comparison).
C31_FirstOccurrenceWins ==
    [][(/\ OccurrencePlaced
        /\ cur' # cur
        /\ cur'.read = "read"
        /\ routed'.outcome = "place"
        /\ packName' = packName
        /\ cur'.target = cur.target)
       => co' # "placing"]_vars

----------------------------------------------------------------------------
(* Further claims about the coordinator, checked under SpecSource           *)

\* the state of the coordinator's state machine main is in: main has no
\* code between its loop and the end of the process
CoordinatorState(frame) ==
    IF frame.pc = "exited" THEN "Exited"
    ELSE IF frame.pc = "running" THEN "Running"
    ELSE "Configuring"

\* C32: the coordinator visits its states only in the order Configuring,
\* Running, Draining, Exited: Running is entered only from Configuring, every
\* startup step done without error, and Running is left only for Draining,
\* the process ending with exit code 0.
C32_StatesInOrder ==
    [][/\ (CoordinatorState(boot) # "Running" /\ CoordinatorState(boot') = "Running")
          => /\ CoordinatorState(boot) = "Configuring"
             /\ boot'.done = Range(Startup)
             /\ boot'.failed = "none"
       /\ (CoordinatorState(boot) = "Running" /\ CoordinatorState(boot') # "Running")
          => CoordinatorState(boot') = "Draining"
       /\ (CoordinatorState(boot) = "Running" /\ CoordinatorState(boot') = "Exited")
          => boot'.exit = 0]_vars

----------------------------------------------------------------------------
(* Encryption keyrings: a table of a keyring file is made into a keyring,   *)
(* by the producer or by the consumer, and a key held is looked up.         *)

\* the entries a table may hold: a key as keygen writes it, a key of 16
\* bytes, a text that bech32k does not decode, a signing key
RingEntries ==
    {KeyUri(ENCRYPTION_KEY_PREFIX, 1),
     [KeyUri(ENCRYPTION_KEY_PREFIX, 2) EXCEPT !.len = 16],
     [KeyUri(ENCRYPTION_KEY_PREFIX, 3) EXCEPT !.decodes = FALSE],
     KeyUri(SIGNING_KEY_PREFIX, 4)}

RingTables == UNION {[labels -> RingEntries] : labels \in (SUBSET Labels) \ {{}}}

InitRing ==
    /\ PackOff
    /\ PlaceOff
    /\ SourceOff
    /\ LoopOff /\ SizesOff /\ CodecOff /\ KeyfileOff /\ HttpOff /\ RelayOff
    /\ \E table \in RingTables, side \in {"producer", "consumer"} :
          ring = [pc |-> "new", side |-> side, table |-> table,
                  keyring |-> Err("none"), key |-> "", ret |-> Err("none")]

\* EncryptionKeyring::new of the side
G_New ==
    /\ ring.pc = "new"
    /\ LET made == IF ring.side = "producer" THEN ProducerEncryptionNew(ring.table)
                   ELSE ConsumerEncryptionNew(ring.table)
       IN  ring' = [ring EXCEPT !.pc = IF made.ok THEN "built" ELSE "refused",
                                !.keyring = made]
    /\ UNCHANGED <<packVars, placeVars, sourceVars, loop, sizes, codec, keyfile, http, relay>>

\* EncryptionKeyring::get of the side for a key the keyring holds
G_Get ==
    /\ ring.pc = "built"
    /\ \E key \in DOMAIN ring.keyring.val, salt \in Uuids :
          LET keyring == [encryption |-> ring.keyring.val]
          IN  ring' = [ring EXCEPT
                         !.pc = "got", !.key = key,
                         !.ret = IF ring.side = "producer"
                                 THEN ProducerEncryptionGet(keyring, key, salt)
                                 ELSE EncryptionKeyringGet(keyring, key, salt)]
    /\ UNCHANGED <<packVars, placeVars, sourceVars, loop, sizes, codec, keyfile, http, relay>>

NextRing ==
    \/ G_New
    \/ G_Get

SpecRing == InitRing /\ [][NextRing]_vars

\* an entry is a KeyURI that decodes, with the prefix of encryption keys and
\* a key of 32 bytes
EncryptionEntryValid(entry) ==
    /\ entry.decodes
    /\ entry.prefix = ENCRYPTION_KEY_PREFIX
    /\ entry.len = ENCRYPTION_KEY_SIZE

\* C33: keyring construction, producer or consumer, fails when an encryption
\* entry is a malformed KeyURI, has another prefix than that of encryption
\* keys, or decodes to another length than 32 bytes; hence deriving an
\* encryptor for a key held by a constructed keyring does not fail.
C33_BadEncryptionKeyRefused ==
    /\ ring.pc \in {"built", "got"}
       => \A label \in DOMAIN ring.table : EncryptionEntryValid(ring.table[label])
    /\ ring.pc = "got" => ring.ret.ok

----------------------------------------------------------------------------
(* placer-source-http under its supervisor: the fetcher has greeted, reads  *)
(* the URLs requested, and polls; the supervisor reads what it writes with  *)
(* next_file.  A server answers each request with a status, an ETag and a   *)
(* body; the SHA-256 of a body is kept as the body.                         *)

MaxPolls == 2

\* "OK placer-source-http <version> started\n"
FetcherGreeting == Text(<<"O", "K", " ", "h", "t", "t", "p", " ", "0", " ", "s", "\n">>)

\* `sources` tables with the http source: one URL, and two
HttpTables ==
    LET entry(packs) == [user |-> "nobody", group |-> "nobody", packs |-> packs]
    IN  { [n \in {"http"} |-> entry(<<[label |-> "A", resource |-> <<"a">>]>>)],
          [n \in {"http"} |-> entry(<<[label |-> "A", resource |-> <<"a">>],
                                      [label |-> "B", resource |-> <<"b">>]>>)] }

\* the bodies a server may answer with
ServerBodies ==
    { <<>>, Run(2, "x"), Text(<<"\n", "x">>), Run(MAX_PACK_SIZE, "x"),
      Run(MAX_PACK_SIZE + 1, "x") }

\* the answers of a server: 200 with or without an ETag, 304, another status
Responses ==
    { [status |-> 200, etag |-> e, body |-> b] : e \in {"", "v1"}, b \in ServerBodies }
        \cup { [status |-> 304, etag |-> "", body |-> <<>>],
               [status |-> 500, etag |-> "", body |-> <<>>] }

\* how the server of a URL behaves: every answer is 200 with a body other
\* than the one before, or any answer
ServerModes == {"fresh", "any"}

NoResource == [url |-> <<>>, etag |-> "", sha256 |-> Err("none")]

\* Resource::new
ResourceNew(url) == [url |-> url, etag |-> "", sha256 |-> Err("none")]

\* Source::new has returned and main is in its loop: the fetcher has
\* written its greeting, the supervisor has read it and has written its
\* requests, which the fetcher has yet to read
InitHttp ==
    /\ PackOff
    /\ PlaceOff
    /\ LoopOff /\ SizesOff /\ CodecOff /\ KeyfileOff /\ RingOff /\ RelayOff
    /\ \E table \in HttpTables :
          /\ boot = [pc |-> "running", sources |-> table, exit |-> 0, failed |-> "none",
                     done |-> Range(Startup),
                     spawned |-> <<HardWiredSource>>, verified |-> 0]
          /\ source = [NoSource EXCEPT
                          !.pc = "header",
                          !.resources = ReverseMap(table[HardWiredSource].packs).val,
                          !.stdin_open = TRUE,
                          !.result = [ok |-> TRUE,
                                      greeting |-> read_greeting(FetcherGreeting, FALSE).val],
                          !.stdin = request_resources(table[HardWiredSource].packs),
                          !.flushed = TRUE]
          /\ \E server \in [{table[HardWiredSource].packs[i].resource :
                                i \in DOMAIN table[HardWiredSource].packs} -> ServerModes] :
                http = [pc |-> "read_urls", urls |-> <<>>, resource |-> NoResource,
                        server |-> server, polls |-> 0, records |-> <<>>]

RECURSIVE TrimEndOfLine(_)
\* line.trim_end()
TrimEndOfLine(line) ==
    IF line # <<>> /\ IsWhitespace(line[Len(line)])
    THEN TrimEndOfLine(SubSeq(line, 1, Len(line) - 1))
    ELSE line

\* read_urls_from_stdin: the lines up to the first that is empty once trimmed
read_urls_from_stdin(stdin) ==
    LET lines == [i \in DOMAIN stdin |-> TrimEndOfLine(stdin[i])]
        empty == {i \in DOMAIN lines : lines[i] = <<>>}
        end == CHOOSE i \in empty : \A j \in empty : i <= j
    IN  SubSeq(lines, 1, end - 1)

\* main from read_urls_from_stdin to the first worker_loop: resources.pop()
\* takes the last resource, and worker_loop does not return; with no URL
\* main returns
H_ReadUrls ==
    /\ http.pc = "read_urls"
    /\ source.flushed
    /\ LET urls == read_urls_from_stdin(source.stdin)
       IN  IF urls = <<>>
           THEN /\ http' = [http EXCEPT !.pc = "exited"]
                /\ source' = [source EXCEPT !.eof = TRUE]
           ELSE /\ http' = [http EXCEPT !.pc = "worker_loop", !.urls = urls,
                                        !.resource = ResourceNew(urls[Len(urls)])]
                /\ UNCHANGED source
    /\ UNCHANGED boot
    /\ UNCHANGED <<packVars, placeVars, loop, sizes, codec, keyfile, ring, relay>>

\* Resource::fetch for an answer of the server
Fetch(resource, response) ==
    IF response.status = 304 THEN [resource |-> resource, ret |-> Ok("None")]
    ELSE IF response.status = 200
    THEN LET tagged == IF response.etag # "" THEN [resource EXCEPT !.etag = response.etag]
                       ELSE resource
         IN  IF resource.sha256 = Ok(response.body)
             THEN [resource |-> tagged, ret |-> Ok("None")]
             ELSE [resource |-> [tagged EXCEPT !.sha256 = Ok(response.body)],
                   ret |-> Ok("Some")]
    ELSE [resource |-> resource, ret |-> Err("status")]

RECURSIVE Decimal(_)
\* the decimal form of a length
Decimal(n) ==
    IF n < 10 THEN <<DecimalDigits[n + 1]>>
    ELSE Decimal(n \div 10) \o <<DecimalDigits[(n % 10) + 1]>>

\* format!("{} {}\n", body.len(), resource.url), the body, b"\n"
DeliveryRecord(url, body) ==
    Text(Decimal(TotalLen(body)) \o <<" ">> \o url \o <<"\n">>) \o body \o Text(<<"\n">>)

\* one turn of worker_loop: the fetch, the record written for Ok(Some(body)),
\* the sleep
H_Fetch ==
    /\ http.pc = "worker_loop"
    /\ http.polls < MaxPolls
    /\ \E response \in Responses :
          LET fetched == Fetch(http.resource, response)
              some == fetched.ret = Ok("Some")
          IN  /\ http.server[http.resource.url] = "fresh"
                    => response.status = 200 /\ http.resource.sha256 # Ok(response.body)
              /\ http' = [http EXCEPT
                            !.resource = fetched.resource,
                            !.polls = @ + 1,
                            !.records = IF some
                                        THEN Append(@, [url |-> http.resource.url,
                                                        body |-> response.body])
                                        ELSE @]
              /\ source' = IF some
                           THEN [source EXCEPT
                                    !.stdout = @ \o DeliveryRecord(http.resource.url,
                                                                   response.body)]
                           ELSE source
    /\ UNCHANGED boot
    /\ UNCHANGED <<packVars, placeVars, loop, sizes, codec, keyfile, ring, relay>>

NextHttp ==
    \/ H_ReadUrls
    \/ H_Fetch
    \/ NF_Header
    \/ NF_Body
    \/ NF_Marker

SpecHttp == InitHttp /\ [][NextHttp]_vars

\* the fetcher is a running process: it comes to read its URLs, and its loop
\* comes to its next fetch after every sleep
SpecHttpFair == SpecHttp /\ WF_vars(H_ReadUrls) /\ WF_vars(H_Fetch)

----------------------------------------------------------------------------
(* Claims about the HTTP fetcher *)

\* the URLs written to the fetcher in the request phase
RequestedUrls == DOMAIN http.server

\* a delivery record for the URL has been written to stdout
RecordWritten(url) == \E n \in DOMAIN http.records : http.records[n].url = url

C39_FetcherConforms ==
    /\ [][Returns =>
            LET sent == http.records[boot'.verified]
            IN  source'.result = Ok([label |-> source.resources[sent.url],
                                     bytes |-> sent.body])]_vars
    /\ [](boot.failed # "next_file")

----------------------------------------------------------------------------
(* Deliveries of published packs: the producer has published packs under    *)
(* the labels A and B; the fetcher, which is not trusted, delivers the      *)
(* bytes of any of them under the header of either label, in any order and  *)
(* as often as it likes; the coordinator verifies each delivery and         *)
(* processes the pack.                                                      *)

MaxRelays == 3

\* the coordinator's clock: twenty days in ticks
RelayClock == 20 * 86400 * TicksPerSecond

RelayProducer ==
    [signing |-> [l \in {DEFAULT_KEY_LABEL} |-> KeyUri(SIGNING_KEY_PREFIX, 1)],
     encryption |-> [l \in {DEFAULT_KEY_LABEL} |-> KeyUri(ENCRYPTION_KEY_PREFIX, 1)]]

RelayConsumer == ConsumerLoad(ExportVerifyKeys(ProducerLoad(RelayProducer).val)).val

PackFileOf(filename, body) ==
    [filename |-> filename, content_type |-> DEFAULT_CONTENT_TYPE, modified_at |-> 7,
     body |-> body]

\* what the producer has published: under A a pack twenty days old, one a
\* second old and one dated beyond the skew allowed; under B a pack that
\* also holds a file named as a target of A
Published ==
    << [label |-> "A", uuid |-> 1, date |-> 0,
        files |-> <<PackFileOf("/etc/hello", <<1, 2>>)>>],
       [label |-> "A", uuid |-> 2, date |-> RelayClock - TicksPerSecond,
        files |-> <<PackFileOf("/etc/hello", <<3>>)>>],
       [label |-> "B", uuid |-> 1, date |-> RelayClock,
        files |-> <<PackFileOf("/etc/hello", <<9>>), PackFileOf("/etc/motd", <<4>>)>>],
       [label |-> "A", uuid |-> 2,
        date |-> RelayClock + (MAX_PACK_TIMESTAMP_SKEW + 1) * TicksPerSecond,
        files |-> <<PackFileOf("/etc/hello", <<5>>)>>] >>

\* the bytes of a published pack: Pack::encrypt_and_sign with the producer's
\* keys
PublishedBytes(n) ==
    LET keyring == ProducerLoad(RelayProducer).val
        p == [uuid |-> Published[n].uuid, date |-> Published[n].date,
              files |-> Published[n].files]
    IN  encrypt_and_sign(p,
                         ProducerEncryptionGet(keyring, DEFAULT_KEY_LABEL, p.uuid).val,
                         keyring.signing[DEFAULT_KEY_LABEL])

\* Pack::verify_and_decrypt (placer-pack)
verify_and_decrypt(bytes, keyring, clock) ==
    IF bytes.short \/ bytes.magic # PACK_V0_MAGIC_STRING \/ bytes.malformed THEN Err("Parse")
    ELSE
    LET proto == bytes.proto
        uuid == UuidParseStr(proto.uuid)
        keys == key_lookup(keyring, Fingerprints(proto), uuid.val)
        date == to_datetime_utc(proto.date.value)
        plaintext == Open(keys.val.encryptor, OpenAD(proto), proto.ciphertext)
    IN  IF ~uuid.ok THEN Err("Parse")
        ELSE IF ~keys.ok THEN Err("InvalidKey")
        ELSE IF ~proto.date.present \/ ~date.ok THEN Err("Parse")
        ELSE IF ~PublicKeyVerify(keys.val.public_key, proto.ciphertext, proto.signature).ok
             THEN Err("Crypto")
        ELSE IF ~plaintext.ok THEN Err("Crypto")
        ELSE IF BogusFuture(date.val, clock) THEN Err("Parse")
        ELSE Ok([uuid |-> uuid.val, date |-> date.val,
                 fingerprints |-> Fingerprints(proto),
                 files |-> PayloadDecode(plaintext.val)])

\* the coordinator's Pack::verify_and_decrypt: the name is the label
\* next_file has returned
PackVerifyAndDecrypt(name, data, keyring, clock) ==
    LET contents == verify_and_decrypt(data, keyring, clock)
    IN  IF contents.ok THEN Ok([name |-> name, contents |-> contents.val])
        ELSE Err("None")

RelayTargets == process_file_config(HostFiles)

InitRelay ==
    /\ PackOff
    /\ PlaceOff
    /\ SourceOff
    /\ LoopOff /\ SizesOff /\ CodecOff /\ KeyfileOff /\ RingOff /\ HttpOff
    /\ relay = [pc |-> "recv", disk |-> [p \in DOMAIN RelayTargets |-> Absent],
                at |-> 0, intact |-> TRUE, label |-> "", verdict |-> Err("none"),
                accepted |-> <<>>, placed |-> <<>>, count |-> 0]

\* get_next_pack: next_file returns the label of the header and the bytes,
\* which are those of a published pack, as published or with a bit of the
\* ciphertext flipped; Pack::verify_and_decrypt gives the pack or None
R_GetNextPack ==
    /\ relay.pc = "recv"
    /\ relay.count < MaxRelays
    /\ \E n \in DOMAIN Published, label \in PackNames, intact \in BOOLEAN :
          LET bytes == IF intact THEN PublishedBytes(n)
                       ELSE [PublishedBytes(n) EXCEPT !.proto.ciphertext.flip = 1]
              verdict == PackVerifyAndDecrypt(label, bytes, RelayConsumer, RelayClock)
          IN  relay' = [relay EXCEPT
                          !.pc = IF verdict.ok THEN "process" ELSE "recv",
                          !.at = n, !.intact = intact, !.label = label,
                          !.verdict = verdict,
                          !.accepted = IF verdict.ok THEN Append(@, n) ELSE @,
                          !.count = @ + 1]
    /\ UNCHANGED <<packVars, placeVars, sourceVars, loop, sizes, codec, keyfile, ring, http>>

RECURSIVE ProcessFiles(_, _, _, _, _)
\* the loop of process_pack from file i on: place_file_if_updated for a file
\* of a target of the pack's name; a placement that fails does so before its
\* rename
ProcessFiles(files, i, name, placed, disk) ==
    IF i > Len(files) THEN disk
    ELSE LET path == PathBufFrom(files[i].filename)
             body == files[i].body
             read == IF disk[path].exists THEN "read" ELSE "open_failed"
         IN  ProcessFiles(files, i + 1, name, placed,
                 IF Route(RelayTargets, name, files[i].filename) # "place" THEN disk
                 ELSE IF UpToDate(disk[path], read, body) THEN disk
                 ELSE IF placed[i] THEN [disk EXCEPT ![path] = File(body)]
                 ELSE disk)

\* process_pack for the pack verified
R_ProcessPack ==
    /\ relay.pc = "process"
    /\ \E placed \in [DOMAIN relay.verdict.val.contents.files -> BOOLEAN] :
          relay' = [relay EXCEPT
                      !.pc = "recv", !.placed = placed,
                      !.disk = ProcessFiles(relay.verdict.val.contents.files, 1,
                                            relay.verdict.val.name, placed, @)]
    /\ UNCHANGED <<packVars, placeVars, sourceVars, loop, sizes, codec, keyfile, ring, http>>

NextRelay ==
    \/ R_GetNextPack
    \/ R_ProcessPack

SpecRelay == InitRelay /\ [][NextRelay]_vars

----------------------------------------------------------------------------
(* Claims about deliveries *)

\* C36: the pack label used for routing is bound to what the producer
\* published: validly signed pack bytes that were published at the resource
\* of label B, when delivered by the fetcher under the header of the resource
\* configured for label A, are not placed into targets configured for pack A.
C36_LabelBoundToPublication ==
    [][(/\ relay.pc = "process"
        /\ Published[relay.at].label # relay.label)
       => \A p \in DOMAIN RelayTargets :
             RelayTargets[p].pack = relay.label => relay'.disk[p] = relay.disk[p]]_vars

\* the delivery was a pack as published whose date is not beyond the skew
\* allowed
CorrectlySigned ==
    /\ relay.at \in DOMAIN Published
    /\ relay.intact
    /\ Published[relay.at].date - RelayClock <= MAX_PACK_TIMESTAMP_SKEW * TicksPerSecond

\* C37: acceptance of a pack does not depend on earlier packs:
\* verify_and_decrypt accepts a correctly signed pack however far in the past
\* its date is, also when the same pack or a pack with a later date was
\* already accepted for the same label, and the coordinator then places its
\* files, so re-delivery of an older pack replaces content placed from a
\* newer one.
C37_ReplayAccepted ==
    /\ [](CorrectlySigned =>
             /\ relay.verdict.ok
             /\ relay.verdict.val.name = relay.label
             /\ relay.verdict.val.contents.files = Published[relay.at].files
             /\ relay.verdict.val.contents.date = Published[relay.at].date)
    /\ [][(relay.pc = "process" /\ relay.label = Published[relay.at].label)
          => \A i \in DOMAIN Published[relay.at].files :
                LET file == Published[relay.at].files[i]
                    path == PathBufFrom(file.filename)
                IN  (path \in DOMAIN RelayTargets /\ RelayTargets[path].pack = relay.label)
                    => /\ relay'.disk[path] \in {File(file.body), relay.disk[path]}
                       /\ relay'.placed[i] => relay'.disk[path] = File(file.body)]_vars

\* the pack of twenty days ago was accepted after the pack of a second ago,
\* and /etc/hello holds the older body again
C37_Witness ==
    /\ relay.pc = "recv"
    /\ Len(relay.accepted) = 2
    /\ relay.accepted[1] = 2 /\ relay.accepted[2] = 1
    /\ Published[1].date < Published[2].date
    /\ relay.label = "A"
    /\ relay.disk[<<"etc", "hello">>] = File(<<1, 2>>)

====
